---- MODULE Spec2Model ----
(***************************************************************************)
(* Terminal session bridge of OpenSpace.                                   *)
(*                                                                         *)
(* The module holds one state machine per component, each with its own     *)
(* specification over a shared variable tuple:                             *)
(*   SpecInvoke   invokeWithFallbacks             (renderer bridge)        *)
(*   SpecBacklog  the two output-backlog policies (pure append-and-trim)   *)
(*   SpecMuxData  the event multiplexer of tauriAPI.terminal, output path  *)
(*   SpecMuxExit  the same multiplexer, exit path and its timers           *)
(*   SpecMuxOrder the output path, with every delivery recorded            *)
(*   SpecMuxThrow the two event handlers with listeners that throw         *)
(*   SpecMuxTeardown the exit handler and all the state it removes         *)
(*   SpecMuxHandles the subscriptions and their unsubscribe closures       *)
(*   SpecEvents   the setup of the renderer bridge's backend event streams *)
(*   SpecKill     killTerminal under disposePaneRuntime                    *)
(*   SpecInput    the input path: a keystroke, its write call, its failure  *)
(*   SpecResize   the resize path: observer, animation frame, resize call    *)
(*   SpecCreateGate tauriAPI.terminal.create behind ensureTerminalEventListeners *)
(*   SpecSubscribe subscribe of the preload bridge and its Unsubscribe        *)
(*   SpecListeners the subscription effect of App.tsx over the event setup   *)
(*   Spec         the pane runtime controller of App.tsx on top of the     *)
(*                renderer bridge and the backend                          *)
(*   FairSpec     Spec with the fairness the event loop guarantees         *)
(* A specification leaves the variables of the other components unchanged. *)
(***************************************************************************)
EXTENDS Integers, Sequences, FiniteSets, TLC

VARIABLES
  \* ---- invokeWithFallbacks
  iw_commands,    \* number of wire names in `commands` (1 = canonical name)
  iw_variants,    \* number of payload shapes in `argsVariants` (1 = wrapped)
  iw_ci,          \* index of the outer loop (command)
  iw_ai,          \* index of the inner loop (args)
  iw_pc,          \* "loop" | "done"
  iw_log,         \* backend calls issued, in order: [command, args, ok]
  iw_lastError,   \* lastError
  iw_result,      \* settlement of the returned promise
  \* ---- backlog policies
  bk_mux,         \* terminalDataBySession entry of one session (part_000)
  bk_bridge,      \* terminalOutputBySession entry of one session (part_001)
  bk_muxHist,     \* ghost: chunks buffered in bk_mux since it was last cleared
  bk_bridgeHist,  \* ghost: chunks buffered in bk_bridge since last cleared
  bk_n,           \* chunks emitted so far
  \* ---- event multiplexer (part_000)
  mx_data,        \* terminalDataBySession: session -> backlog entry
  mx_exit,        \* terminalExitBySession: session -> delayed exit record
  mx_sessData,    \* terminalSessionDataListeners: session -> set of listeners
  mx_sessExit,    \* terminalSessionExitListeners: session -> set of listeners
  mx_globalData,  \* terminalDataListeners
  mx_globalExit,  \* terminalExitListeners
  mx_timers,      \* pending setTimeout callbacks: [sid, at]
  mx_now,         \* the clock, in ms
  mx_exited,      \* backend: sessions whose exit event was emitted
  mx_n,           \* backend: output chunks emitted so far
  mx_hist,        \* ghost: session -> chunks buffered since the backlog was cleared
  mx_flushCount,  \* ghost: chunk -> backlog flushes that delivered it (capped at 2)
  mx_liveCount,   \* ghost: chunk -> live deliveries of it (capped at 2)
  mx_exitGhost,   \* ghost: session -> when its exit was recorded, deliveries, destroy
  mx_last,        \* ghost: the last multiplexer operation (see MxEntry)
  mx_cwd,         \* terminalSessionCwd: session -> working directory
  mx_created,     \* ghost: sessions whose create call has returned
  mx_emitted,     \* ghost: session -> the output the backend emitted for it, in order
  mx_recv,        \* ghost: session -> listener -> what its registration was given, in order
  mx_fate,        \* ghost: chunk -> "kept" | "cut" (by the cap) | "discarded" (with its backlog)
  mx_handles,     \* the unsubscribe closures handed out: [kind, sid, l, calls]
  \* ---- pane runtime controller (App.tsx), renderer bridge, backend
  ctl_paneCount,   \* terminalPaneCount
  ctl_hosts,       \* terminalHostsRef: pane -> host element
  ctl_runtimes,    \* terminalRuntimesRef: pane -> hostElement of its runtime
  ctl_paneSession, \* paneSessionMapRef: pane -> session
  ctl_sessionPane, \* sessionPaneMapRef: session -> pane
  ctl_creating,    \* creatingSessionRef: pane -> create promise (its call)
  ctl_calls,       \* ensurePaneSession invocations that passed both early returns
  ctl_effect,      \* the reconciliation effect is due
  be_sessions,     \* backend: session -> "none" | "alive" | "exited"
  be_killed,       \* backend: live sessions for which a kill was requested
  ctl_exitSeen,    \* ghost: sessions whose exit event reached the exit listener
  ctl_outLost,     \* ghost: sessions with an output event dropped before registration
  ctl_stale,       \* ghost: a write/resize was issued for a session in ctl_exitSeen
  \* ---- terminal event setup of the renderer bridge (part_001)
  ev_ready,        \* terminalEventsReady
  ev_promise,      \* terminalEventsSetupPromise: 0 (null) or the number of the setup
  ev_setups,       \* setups started so far
  ev_stage,        \* where the running setup stands: "idle" | "output" | "exit"
  ev_listens,      \* listen calls issued, in order: [setup, name, st]
  ev_handlers,     \* backend: event name -> handlers registered for it
  ev_unlisteners,  \* terminalEventUnlisteners: the listen calls whose unlisten is kept
  ev_waiters,      \* callers awaiting the setup promise (capped)
  \* ---- killTerminal and what the renderer remembers of a session
  kl_runtime,      \* terminalRuntimesRef: pane -> it has a runtime
  kl_paneSession,  \* paneSessionMapRef: pane -> session
  kl_sessionPane,  \* sessionPaneMapRef: session -> pane
  kl_out,          \* terminalOutputBySession (part_001): session -> backlog entry
  kl_kills,        \* killTerminal call of a session: "none" | "pending" | "ok" | "failed"
  kl_be,           \* backend: session -> "none" | "alive" | "exited"
  kl_n,            \* output chunks emitted so far
  \* ---- the input path of a pane (App.tsx terminal.onData, writeTerminal)
  in_paneSession,   \* paneSessionMapRef: pane -> session
  in_status,        \* the pane's status in terminalPanes
  in_writes,        \* writeTerminal calls, in order: [pane, sid, st]
  in_keys,          \* ghost: for each keystroke, its pane and the session bound to it then
  in_thrown,        \* ghost: an exception reached the caller of the input handler
  \* ---- the resize path of a pane (App.tsx resizePaneTerminal, ResizeObserver)
  rs_runtime,       \* terminalRuntimesRef: pane -> it has a runtime
  rs_paneSession,   \* paneSessionMapRef: pane -> session
  rs_frame,         \* runtime.resizeFrame of the pane's runtime: 0 (null) or a request id
  rs_raf,           \* browser: the animation frame requests not yet run or cancelled: [pane, id]
  rs_ids,           \* browser: request ids handed out so far
  rs_last,          \* the last resize call sent to the backend
  rs_notes,         \* ghost: pane -> observer notifications since the last frame ran (capped)
  \* ---- tauriAPI.terminal.create and ensureTerminalEventListeners (part_000)
  cg_initialized,   \* terminalEventsInitialized
  cg_listening,     \* backend: the event kinds the multiplexer's handlers are registered for
  cg_pc,            \* create call -> where it stands
  cg_sentWith,      \* ghost: create call -> the kinds registered when terminal_create was sent
  cg_lost,          \* ghost: an output event of a created session found no handler
  \* ---- subscribe of the preload bridge (part_004)
  sb_subs,          \* the subscribe calls made so far, see SbNew
  \* ---- the terminal event subscription effect (App.tsx) and the bridge's listener sets
  fx_effects,       \* runs of the subscription effect, see FxEffect
  fx_outL,          \* terminalOutputListeners (part_001): the runs whose listener is in it
  fx_exitL,         \* terminalExitListeners (part_001): the runs whose listener is in it
  fx_session,       \* the session: "none" | "bound" (to a mounted pane) | "exited"
  fx_last,          \* ghost: the last event delivered: handlers run, writes to the pane
  fx_exits,         \* ghost: times the exit was handled (marker written, respawn asked)
  fx_events         \* output events emitted so far

iwVars == <<iw_commands, iw_variants, iw_ci, iw_ai, iw_pc, iw_log, iw_lastError, iw_result>>
bkVars == <<bk_mux, bk_bridge, bk_muxHist, bk_bridgeHist, bk_n>>
mxVars == <<mx_data, mx_exit, mx_sessData, mx_sessExit, mx_globalData, mx_globalExit,
            mx_timers, mx_now, mx_exited, mx_n, mx_hist,
            mx_flushCount, mx_liveCount, mx_exitGhost, mx_last, mx_cwd, mx_created>>
ctlVars == <<ctl_paneCount, ctl_hosts, ctl_runtimes, ctl_paneSession, ctl_sessionPane,
             ctl_creating, ctl_calls, ctl_effect, be_sessions, be_killed,
             ctl_exitSeen, ctl_outLost, ctl_stale>>
obsVars == <<mx_emitted, mx_recv, mx_fate, mx_handles>>
evVars == <<ev_ready, ev_promise, ev_setups, ev_stage, ev_listens, ev_handlers,
            ev_unlisteners, ev_waiters>>
klVars == <<kl_runtime, kl_paneSession, kl_sessionPane, kl_out, kl_kills, kl_be, kl_n>>
inVars == <<in_paneSession, in_status, in_writes, in_keys, in_thrown>>
rsVars == <<rs_runtime, rs_paneSession, rs_frame, rs_raf, rs_ids, rs_last, rs_notes>>
cgVars == <<cg_initialized, cg_listening, cg_pc, cg_sentWith, cg_lost>>
sbVars == <<sb_subs>>
fxVars == <<fx_effects, fx_outL, fx_exitL, fx_session, fx_last, fx_exits, fx_events>>
extVars == <<klVars, inVars, rsVars, cgVars, sbVars, fxVars>>
\* The variables of the other components of extVars, for each of them.
klFrame == <<inVars, rsVars, cgVars, sbVars, fxVars>>
inFrame == <<klVars, rsVars, cgVars, sbVars, fxVars>>
rsFrame == <<klVars, inVars, cgVars, sbVars, fxVars>>
cgFrame == <<klVars, inVars, rsVars, sbVars, fxVars>>
sbFrame == <<klVars, inVars, rsVars, cgVars, fxVars>>
fxFrame == <<klVars, inVars, rsVars, cgVars, sbVars>>
vars == <<iwVars, bkVars, mxVars, ctlVars, obsVars, evVars, extVars>>

None == "none"

\* An entry of a Map<string, string>: absent, or present with a string.
Absent == [has |-> FALSE, str |-> <<>>]
Present(s) == [has |-> TRUE, str |-> s]

Min(a, b) == IF a < b THEN a ELSE b
Max(a, b) == IF a > b THEN a ELSE b

(***************************************************************************)
(* Strings.  A string is a sequence of pieces [c, lo, hi]: the characters  *)
(* lo..hi (1-based) of output chunk number c.  Chunks are numbered in      *)
(* arrival order, so two strings are equal iff they hold the same          *)
(* characters of the same chunks in the same order.                        *)
(***************************************************************************)
Chunk(c, len) == IF len = 0 THEN <<>> ELSE <<[c |-> c, lo |-> 1, hi |-> len]>>

PieceLen(p) == p.hi - p.lo + 1

RECURSIVE StrLen(_)
StrLen(s) == IF s = <<>> THEN 0 ELSE PieceLen(Head(s)) + StrLen(Tail(s))

\* String.prototype.slice(start) for 0 <= start: drops the first `start` characters.
RECURSIVE SliceFrom(_, _)
SliceFrom(s, start) ==
  IF start <= 0 \/ s = <<>> THEN s
  ELSE IF start >= PieceLen(Head(s)) THEN SliceFrom(Tail(s), start - PieceLen(Head(s)))
  ELSE <<[Head(s) EXCEPT !.lo = @ + start]>> \o Tail(s)

\* String.prototype.slice(-n): a negative start counts from the end, floored at 0.
SliceLast(s, n) == SliceFrom(s, Max(StrLen(s) - n, 0))

\* The last n characters of s, taken from the end (the reference the claims use).
RECURSIVE LastChars(_, _)
LastChars(s, n) ==
  IF n <= 0 \/ s = <<>> THEN <<>>
  ELSE LET p == s[Len(s)]
           front == SubSeq(s, 1, Len(s) - 1)
       IN IF PieceLen(p) <= n THEN LastChars(front, n - PieceLen(p)) \o <<p>>
          ELSE <<[p EXCEPT !.lo = p.hi - n + 1]>>

(***************************************************************************)
(* invokeWithFallbacks (part_001:142-160, openspaceBridge.ts:176-194)      *)
(***************************************************************************)
MaxCommands == 3
MaxVariants == 2
MaxErrorCodes == 2

\* The value the backend returns for one combination (it names the combination).
IwValue(ci, ai) == 10 * ci + ai
\* The errors the backend may throw; NoError stands for `undefined`.
IwErrors == 1..MaxErrorCodes
NoError == 0
IwPending == [kind |-> "pending", value |-> 0]

\* for (const command of commands) for (const args of argsVariants): the next pair.
IwAdvanceShapeMajor(ci, ai) ==
  IF ci < iw_commands THEN <<ci + 1, ai>> ELSE <<1, ai + 1>>
IwAdvance(ci, ai) ==
  IF ai < iw_variants THEN <<ci, ai + 1>> ELSE <<ci + 1, 1>>

\* catch (error) { lastError = error; }
IwCatchKeepFirst(previous, error) == IF previous = NoError THEN error ELSE previous
IwCatch(previous, error) == error

IwInit ==
  /\ iw_commands \in 1..MaxCommands
  /\ iw_variants \in 1..MaxVariants
  /\ iw_ci = 1
  /\ iw_ai = 1
  /\ iw_pc = "loop"
  /\ iw_log = <<>>
  /\ iw_lastError = NoError
  /\ iw_result = IwPending

\* return await invokeCommand(command, args)   -- the call resolves
InvokeAttemptOk ==
  /\ iw_pc = "loop"
  /\ iw_log' = Append(iw_log, [command |-> iw_ci, args |-> iw_ai, ok |-> TRUE, error |-> NoError])
  /\ iw_result' = [kind |-> "ok", value |-> IwValue(iw_ci, iw_ai)]
  /\ iw_pc' = "done"
  /\ UNCHANGED <<iw_commands, iw_variants, iw_ci, iw_ai, iw_lastError>>
  /\ UNCHANGED <<bkVars, mxVars, ctlVars, obsVars, evVars, extVars>>

\* the call rejects: remember the error, go on with the next combination, and
\* throw lastError ?? new Error(...) when the loops are exhausted
InvokeAttemptFails ==
  /\ iw_pc = "loop"
  /\ \E error \in IwErrors :
       /\ iw_log' = Append(iw_log, [command |-> iw_ci, args |-> iw_ai, ok |-> FALSE, error |-> error])
       /\ iw_lastError' = IwCatch(iw_lastError, error)
  /\ LET nxt == IwAdvance(iw_ci, iw_ai) IN
       /\ iw_ci' = nxt[1]
       /\ iw_ai' = nxt[2]
       /\ IF nxt[1] > iw_commands
            THEN /\ iw_pc' = "done"
                 /\ iw_result' = [kind |-> "err", value |-> iw_lastError']
            ELSE /\ iw_pc' = "loop"
                 /\ iw_result' = iw_result
  /\ UNCHANGED <<iw_commands, iw_variants>>
  /\ UNCHANGED <<bkVars, mxVars, ctlVars, obsVars, evVars, extVars>>

(***************************************************************************)
(* Output backlog policies                                                 *)
(***************************************************************************)
TERMINAL_BUFFER_LIMIT == 1048576
BRIDGE_BUFFER_LIMIT == 8000
MaxChunks == 4

\* Chunk lengths that make the cap's cases happen: below, exactly at, and above it.
ChunkLens(cap) == {0, 1, cap \div 2, (cap \div 2) + 1, cap + 1}

\* emitTerminalData, part_000:89-94: previous + data, cut to the newest characters
MuxBufferPrepends(previous, data) ==
  LET next == data \o previous.str
  IN Present(IF StrLen(next) > TERMINAL_BUFFER_LIMIT
               THEN SliceFrom(next, StrLen(next) - TERMINAL_BUFFER_LIMIT)
               ELSE next)
MuxBufferKeepOldest(previous, data) ==
  LET next == previous.str \o data
  IN Present(IF StrLen(next) > TERMINAL_BUFFER_LIMIT
               THEN SliceFrom(next, TERMINAL_BUFFER_LIMIT) ELSE next)
MuxBuffer(previous, data) ==
  LET next == previous.str \o data       \* (get(sessionId) || "") + data
  IN Present(IF StrLen(next) > TERMINAL_BUFFER_LIMIT
               THEN SliceFrom(next, StrLen(next) - TERMINAL_BUFFER_LIMIT)
               ELSE next)

\* appendTerminalOutput, part_001:183-185 and openspaceBridge.ts:215-217
BridgeBuffer(previous, data) ==
  LET combined == previous.str \o data   \* (get(sessionId) ?? "") + data
  IN Present(SliceLast(combined, BRIDGE_BUFFER_LIMIT))

BkInit ==
  /\ bk_mux = Absent
  /\ bk_bridge = Absent
  /\ bk_muxHist = <<>>
  /\ bk_bridgeHist = <<>>
  /\ bk_n = 0

\* an output event buffered by the multiplexer (no per-session listener)
BkEmitMux ==
  /\ bk_n < MaxChunks
  /\ \E len \in ChunkLens(TERMINAL_BUFFER_LIMIT) :
       /\ bk_mux' = MuxBuffer(bk_mux, Chunk(bk_n + 1, len))
       /\ bk_muxHist' = bk_muxHist \o Chunk(bk_n + 1, len)
  /\ bk_n' = bk_n + 1
  /\ UNCHANGED <<bk_bridge, bk_bridgeHist>>
  /\ UNCHANGED <<iwVars, mxVars, ctlVars, obsVars, evVars, extVars>>

\* an output event buffered by the renderer bridge
BkAppendBridge ==
  /\ bk_n < MaxChunks
  /\ \E len \in ChunkLens(BRIDGE_BUFFER_LIMIT) :
       /\ bk_bridge' = BridgeBuffer(bk_bridge, Chunk(bk_n + 1, len))
       /\ bk_bridgeHist' = bk_bridgeHist \o Chunk(bk_n + 1, len)
  /\ bk_n' = bk_n + 1
  /\ UNCHANGED <<bk_mux, bk_muxHist>>
  /\ UNCHANGED <<iwVars, mxVars, ctlVars, obsVars, evVars, extVars>>

\* terminalDataBySession.delete(id): flush, exit or destroy
BkDeleteMux ==
  /\ bk_mux # Absent
  /\ bk_mux' = Absent
  /\ bk_muxHist' = <<>>
  /\ UNCHANGED <<bk_bridge, bk_bridgeHist, bk_n>>
  /\ UNCHANGED <<iwVars, mxVars, ctlVars, obsVars, evVars, extVars>>

\* terminalOutputBySession.set(created.sessionId, ""): createTerminal
BkResetBridge ==
  /\ bk_bridge # Present(<<>>)
  /\ bk_bridge' = Present(<<>>)
  /\ bk_bridgeHist' = <<>>
  /\ UNCHANGED <<bk_mux, bk_muxHist, bk_n>>
  /\ UNCHANGED <<iwVars, mxVars, ctlVars, obsVars, evVars, extVars>>

\* terminalOutputBySession.delete(id): exit or kill
BkDeleteBridge ==
  /\ bk_bridge # Absent
  /\ bk_bridge' = Absent
  /\ bk_bridgeHist' = <<>>
  /\ UNCHANGED <<bk_mux, bk_muxHist, bk_n>>
  /\ UNCHANGED <<iwVars, mxVars, ctlVars, obsVars, evVars, extVars>>

(***************************************************************************)
(* Event multiplexer of tauriAPI.terminal (part_000).  The two backend     *)
(* listeners of ensureTerminalEventListeners are registered; the backend   *)
(* emits the exit event of a session once, after its output.               *)
(***************************************************************************)
NSessions == 2
NSessListeners == 2
NGlobalListeners == 1
MaxMuxChunks == 3
EXIT_TTL_MS == 30000
TickMs == 20000
MaxNowMs == 40000

MxSessions == 1..NSessions
MxChunks == 1..MaxMuxChunks
MxDataL == {<<"d", i>> : i \in 1..NSessListeners}     \* per-session output listeners
MxExitL == {<<"e", i>> : i \in 1..NSessListeners}     \* per-session exit listeners
MxGlobalDataL == {<<"gd", i>> : i \in 1..NGlobalListeners}
MxGlobalExitL == {<<"ge", i>> : i \in 1..NGlobalListeners}
MxExitCodes == {0, 1}
MxChunkLens == {0, 1, (TERMINAL_BUFFER_LIMIT \div 2) + 1}

NoExit == [has |-> FALSE, code |-> 0]

\* terminalSessionCwd: the directory create is given (normalizePath maps an
\* empty one to "~"), and the value that stands for "no entry"
NoCwd == None
MxPaths == {"~"}

\* terminalSessionCwd.delete(sessionId), part_000:123 and 215
ForgetCwdNever(cwd, s) == cwd
ForgetCwd(cwd, s) == [cwd EXCEPT ![s] = NoCwd]
ExitRecord(code) == [has |-> TRUE, code |-> code]

\* The chunks a string holds characters of.
ChunksOf(str) == {str[i].c : i \in 1..Len(str)}

\* The ghost record of the last multiplexer operation.  kind: "init" | "data" |
\* "exit" | "attachData" | "attachExit" | "destroy" | "other"; at: the clock;
\* l: the listener attached; to: the per-session listeners the event was
\* delivered to; global: the global ones; buffered: the event went to the
\* backlog or the delayed exit record; delivered: what the attaching listener
\* received during the call; before: the backlog when the call started; hist:
\* the chunks buffered until then; recAt, recCode, seen, destroyed: the ghost
\* exit bookkeeping of the session when the call started (recAt: when its exit
\* was recorded for want of a listener, -1 if it was not; seen: late deliveries
\* of the record; destroyed: destroy was called after the record was made);
\* reg: the listeners registered for the event when the call started; threw:
\* the listeners that throw when called; escaped: an exception left the call.
MxEntry(kind, sid) ==
  [kind |-> kind, sid |-> sid, at |-> mx_now, l |-> <<"-", 0>>, to |-> {}, global |-> {},
   data |-> <<>>, code |-> 0, buffered |-> FALSE, delivered |-> <<>>,
   before |-> <<>>, hist |-> <<>>, after |-> <<>>,
   recAt |-> 0 - 1, recCode |-> 0, seen |-> 0, destroyed |-> FALSE,
   reg |-> {}, threw |-> {}, escaped |-> FALSE]

\* The ghost record of an operation no claim looks at.
MxOther == [MxEntry("other", 0) EXCEPT !.at = 0]

\* addPerSessionListener, part_000:55-61 (the returned closure is MxUnsub)
AddPerSessionListener(store, sessionId, listener) ==
  [store EXCEPT ![sessionId] = @ \cup {listener}]

\* the closure returned by addPerSessionListener, part_000:62-67
MxUnsub(store, sessionId, listener) ==
  [store EXCEPT ![sessionId] = @ \ {listener}]

\* onDataForSession, part_000:237-243: what the late listener receives and
\* what is left of the backlog entry
MxFlushKeepsBacklog(buffered) ==
  IF buffered.str # <<>>
    THEN [entry |-> buffered, delivered |-> <<buffered.str>>]
    ELSE [entry |-> buffered, delivered |-> <<>>]
MxFlush(buffered) ==
  IF buffered.str # <<>>
    THEN [entry |-> Absent, delivered |-> <<buffered.str>>]
    ELSE [entry |-> buffered, delivered |-> <<>>]

\* onExitForSession, part_000:248-254
MxTakeExitKeepsRecord(record) ==
  IF record.has
    THEN [entry |-> record, delivered |-> <<record.code>>]
    ELSE [entry |-> record, delivered |-> <<>>]
MxTakeExit(record) ==
  IF record.has
    THEN [entry |-> NoExit, delivered |-> <<record.code>>]
    ELSE [entry |-> record, delivered |-> <<>>]

\* the delay of the setTimeout of emitTerminalExit, part_000:115-117
MxExitDeadlineNever(now) == now + MaxNowMs + EXIT_TTL_MS
MxExitDeadline(now) == now + EXIT_TTL_MS

Bump(n) == IF n < 2 THEN n + 1 ELSE n

MxInit ==
  /\ mx_data = [s \in MxSessions |-> Absent]
  /\ mx_exit = [s \in MxSessions |-> NoExit]
  /\ mx_sessData = [s \in MxSessions |-> {}]
  /\ mx_sessExit = [s \in MxSessions |-> {}]
  /\ mx_globalData = {}
  /\ mx_globalExit = {}
  /\ mx_timers = {}
  /\ mx_now = 0
  /\ mx_exited = {}
  /\ mx_n = 0
  /\ mx_hist = [s \in MxSessions |-> <<>>]
  /\ mx_flushCount = [c \in MxChunks |-> 0]
  /\ mx_liveCount = [c \in MxChunks |-> 0]
  /\ mx_exitGhost = [s \in MxSessions |-> [recAt |-> 0 - 1, code |-> 0, seen |-> 0, destroyed |-> FALSE]]
  /\ mx_last = MxEntry("init", 0)
  /\ mx_cwd = [s \in MxSessions |-> NoCwd]
  /\ mx_created = {}
  /\ mx_emitted = [s \in MxSessions |-> <<>>]
  /\ mx_recv = [s \in MxSessions |-> [l \in MxDataL |-> <<>>]]
  /\ mx_fate = [c \in MxChunks |-> "kept"]
  /\ mx_handles = <<>>

\* if (sessionListeners && sessionListeners.size > 0), part_000:79-80
DeliversLiveNever(listeners) == FALSE
DeliversLive(listeners) == listeners # {}

\* listen("terminal:output") handler -> emitTerminalData, part_000:70-95
EmitTerminalData(s, len) ==
  /\ s \notin mx_exited
  /\ mx_n < MaxMuxChunks
  /\ mx_n' = mx_n + 1
  /\ LET data == Chunk(mx_n + 1, len)
         live == DeliversLive(mx_sessData[s])
     IN /\ mx_data' = IF live THEN mx_data ELSE [mx_data EXCEPT ![s] = MuxBuffer(@, data)]
        /\ mx_hist' = IF live THEN mx_hist ELSE [mx_hist EXCEPT ![s] = @ \o data]
        /\ mx_liveCount' = IF live THEN [mx_liveCount EXCEPT ![mx_n + 1] = Bump(@)] ELSE mx_liveCount
        /\ mx_last' = [MxEntry("data", s) EXCEPT
                        !.data = data, !.global = mx_globalData, !.to = mx_sessData[s],
                        !.buffered = ~live]
  /\ UNCHANGED <<mx_cwd, mx_created, mx_exit, mx_sessData, mx_sessExit, mx_globalData, mx_globalExit,
                 mx_timers, mx_now, mx_exited, mx_flushCount, mx_exitGhost>>
  /\ UNCHANGED <<iwVars, bkVars, ctlVars, evVars, extVars>>
MxEmitData(s, len) == EmitTerminalData(s, len) /\ UNCHANGED obsVars

\* listen("terminal:exit") handler -> emitTerminalExit, part_000:97-124
EmitTerminalExit(s, code) ==
  /\ s \notin mx_exited
  /\ mx_exited' = mx_exited \cup {s}
  /\ LET live == mx_sessExit[s] # {}
     IN /\ mx_exit' = IF live THEN mx_exit ELSE [mx_exit EXCEPT ![s] = ExitRecord(code)]
        /\ mx_timers' = IF live THEN mx_timers
                        ELSE mx_timers \cup {[sid |-> s, at |-> MxExitDeadline(mx_now)]}
        /\ mx_exitGhost' = [mx_exitGhost EXCEPT ![s] =
                              IF live THEN @ ELSE [@ EXCEPT !.recAt = mx_now, !.code = code]]
        /\ mx_last' = [MxEntry("exit", s) EXCEPT
                        !.code = code, !.global = mx_globalExit, !.to = mx_sessExit[s],
                        !.buffered = ~live]
  /\ mx_data' = [mx_data EXCEPT ![s] = Absent]
  /\ mx_hist' = [mx_hist EXCEPT ![s] = <<>>]
  /\ mx_sessData' = [mx_sessData EXCEPT ![s] = {}]
  /\ mx_sessExit' = [mx_sessExit EXCEPT ![s] = {}]
  /\ mx_cwd' = ForgetCwd(mx_cwd, s)
  /\ UNCHANGED <<mx_created, mx_globalData, mx_globalExit, mx_now, mx_n, mx_flushCount, mx_liveCount>>
  /\ UNCHANGED <<iwVars, bkVars, ctlVars, evVars, extVars>>
MxEmitExit(s, code) == EmitTerminalExit(s, code) /\ UNCHANGED obsVars

\* the setTimeout callback of emitTerminalExit, part_000:115-117
MxExitTimerFires(t) ==
  /\ t \in mx_timers
  /\ t.at <= mx_now
  /\ mx_timers' = mx_timers \ {t}
  /\ mx_exit' = [mx_exit EXCEPT ![t.sid] = NoExit]
  /\ mx_last' = MxOther
  /\ UNCHANGED <<mx_cwd, mx_created, mx_data, mx_sessData, mx_sessExit, mx_globalData, mx_globalExit,
                 mx_now, mx_exited, mx_n, mx_hist, mx_flushCount, mx_liveCount, mx_exitGhost>>
  /\ UNCHANGED <<iwVars, bkVars, ctlVars, obsVars, evVars, extVars>>

\* time passes, up to the next timer that is due
MxTick ==
  /\ mx_now < MaxNowMs
  /\ \A t \in mx_timers : t.at > mx_now
  /\ LET due == {t.at : t \in mx_timers}
         step == mx_now + TickMs
     IN mx_now' = IF \E d \in due : d < step
                    THEN CHOOSE d \in due : \A e \in due : d <= e
                    ELSE step
  /\ mx_last' = MxOther
  /\ UNCHANGED <<mx_cwd, mx_created, mx_data, mx_exit, mx_sessData, mx_sessExit, mx_globalData, mx_globalExit,
                 mx_timers, mx_exited, mx_n, mx_hist, mx_flushCount, mx_liveCount, mx_exitGhost>>
  /\ UNCHANGED <<iwVars, bkVars, ctlVars, obsVars, evVars, extVars>>

\* tauriAPI.terminal.onData and its unsubscribe, part_000:227-230
OnData(l) ==
  /\ mx_globalData' = mx_globalData \cup {l}
  /\ mx_last' = MxOther
  /\ UNCHANGED <<mx_cwd, mx_created, mx_data, mx_exit, mx_sessData, mx_sessExit, mx_globalExit,
                 mx_timers, mx_now, mx_exited, mx_n, mx_hist, mx_flushCount, mx_liveCount, mx_exitGhost>>
  /\ UNCHANGED <<iwVars, bkVars, ctlVars, evVars, extVars>>
MxOnData(l) == OnData(l) /\ UNCHANGED obsVars

UnsubData(l) ==
  /\ mx_globalData' = mx_globalData \ {l}
  /\ mx_last' = MxOther
  /\ UNCHANGED <<mx_cwd, mx_created, mx_data, mx_exit, mx_sessData, mx_sessExit, mx_globalExit,
                 mx_timers, mx_now, mx_exited, mx_n, mx_hist, mx_flushCount, mx_liveCount, mx_exitGhost>>
  /\ UNCHANGED <<iwVars, bkVars, ctlVars, evVars, extVars>>
MxOffData(l) == UnsubData(l) /\ UNCHANGED obsVars

\* tauriAPI.terminal.onExit and its unsubscribe, part_000:231-234
OnExit(l) ==
  /\ mx_globalExit' = mx_globalExit \cup {l}
  /\ mx_last' = MxOther
  /\ UNCHANGED <<mx_cwd, mx_created, mx_data, mx_exit, mx_sessData, mx_sessExit, mx_globalData,
                 mx_timers, mx_now, mx_exited, mx_n, mx_hist, mx_flushCount, mx_liveCount, mx_exitGhost>>
  /\ UNCHANGED <<iwVars, bkVars, ctlVars, evVars, extVars>>
MxOnExit(l) == OnExit(l) /\ UNCHANGED obsVars

UnsubExit(l) ==
  /\ mx_globalExit' = mx_globalExit \ {l}
  /\ mx_last' = MxOther
  /\ UNCHANGED <<mx_cwd, mx_created, mx_data, mx_exit, mx_sessData, mx_sessExit, mx_globalData,
                 mx_timers, mx_now, mx_exited, mx_n, mx_hist, mx_flushCount, mx_liveCount, mx_exitGhost>>
  /\ UNCHANGED <<iwVars, bkVars, ctlVars, evVars, extVars>>
MxOffExit(l) == UnsubExit(l) /\ UNCHANGED obsVars

\* tauriAPI.terminal.onDataForSession, part_000:235-245
OnDataForSession(s, l) ==
  /\ \A x \in MxSessions : l \notin mx_sessData[x]
  /\ mx_sessData' = AddPerSessionListener(mx_sessData, s, l)
  /\ LET f == MxFlush(mx_data[s])
         got == IF f.delivered = <<>> THEN {} ELSE ChunksOf(f.delivered[1])
     IN /\ mx_data' = [mx_data EXCEPT ![s] = f.entry]
        /\ mx_hist' = IF f.entry = mx_data[s] THEN mx_hist ELSE [mx_hist EXCEPT ![s] = <<>>]
        /\ mx_flushCount' = [c \in MxChunks |->
                               IF c \in got THEN Bump(mx_flushCount[c]) ELSE mx_flushCount[c]]
        /\ mx_last' = [MxEntry("attachData", s) EXCEPT
                        !.l = l, !.delivered = f.delivered, !.before = mx_data[s].str,
                        !.hist = mx_hist[s], !.after = f.entry.str]
  /\ UNCHANGED <<mx_cwd, mx_created, mx_exit, mx_sessExit, mx_globalData, mx_globalExit,
                 mx_timers, mx_now, mx_exited, mx_n, mx_liveCount, mx_exitGhost>>
  /\ UNCHANGED <<iwVars, bkVars, ctlVars, evVars, extVars>>
MxOnDataForSession(s, l) == OnDataForSession(s, l) /\ UNCHANGED obsVars

\* the unsubscribe handle returned by onDataForSession, part_000:62-67
UnsubDataForSession(s, l) ==
  /\ mx_sessData' = MxUnsub(mx_sessData, s, l)
  /\ mx_last' = MxOther
  /\ UNCHANGED <<mx_cwd, mx_created, mx_data, mx_exit, mx_sessExit, mx_globalData, mx_globalExit,
                 mx_timers, mx_now, mx_exited, mx_n, mx_hist, mx_flushCount, mx_liveCount, mx_exitGhost>>
  /\ UNCHANGED <<iwVars, bkVars, ctlVars, evVars, extVars>>
MxOffDataForSession(s, l) == UnsubDataForSession(s, l) /\ UNCHANGED obsVars

\* tauriAPI.terminal.onExitForSession, part_000:246-256
OnExitForSession(s, l) ==
  /\ \A x \in MxSessions : l \notin mx_sessExit[x]
  /\ mx_sessExit' = AddPerSessionListener(mx_sessExit, s, l)
  /\ LET f == MxTakeExit(mx_exit[s])
         g == mx_exitGhost[s]
     IN /\ mx_exit' = [mx_exit EXCEPT ![s] = f.entry]
        /\ mx_exitGhost' = IF f.delivered = <<>> THEN mx_exitGhost
                           ELSE [mx_exitGhost EXCEPT ![s].seen = Bump(@)]
        /\ mx_last' = [MxEntry("attachExit", s) EXCEPT
                        !.l = l, !.delivered = f.delivered, !.recAt = g.recAt,
                        !.recCode = g.code, !.seen = g.seen, !.destroyed = g.destroyed]
  /\ UNCHANGED <<mx_cwd, mx_created, mx_data, mx_sessData, mx_globalData, mx_globalExit,
                 mx_timers, mx_now, mx_exited, mx_n, mx_hist, mx_flushCount, mx_liveCount>>
  /\ UNCHANGED <<iwVars, bkVars, ctlVars, evVars, extVars>>
MxOnExitForSession(s, l) == OnExitForSession(s, l) /\ UNCHANGED obsVars

\* the unsubscribe handle returned by onExitForSession, part_000:62-67
UnsubExitForSession(s, l) ==
  /\ mx_sessExit' = MxUnsub(mx_sessExit, s, l)
  /\ mx_last' = MxOther
  /\ UNCHANGED <<mx_cwd, mx_created, mx_data, mx_exit, mx_sessData, mx_globalData, mx_globalExit,
                 mx_timers, mx_now, mx_exited, mx_n, mx_hist, mx_flushCount, mx_liveCount, mx_exitGhost>>
  /\ UNCHANGED <<iwVars, bkVars, ctlVars, evVars, extVars>>
MxOffExitForSession(s, l) == UnsubExitForSession(s, l) /\ UNCHANGED obsVars

\* tauriAPI.terminal.destroy, part_000:211-221 (the kill call is fire-and-forget;
\* the backend answers it with the session's exit event, MxEmitExit)
Destroy(s) ==
  /\ mx_data' = [mx_data EXCEPT ![s] = Absent]
  /\ mx_hist' = [mx_hist EXCEPT ![s] = <<>>]
  /\ mx_exit' = [mx_exit EXCEPT ![s] = NoExit]
  /\ mx_cwd' = ForgetCwd(mx_cwd, s)
  /\ mx_exitGhost' = [mx_exitGhost EXCEPT ![s].destroyed = (@ \/ mx_exitGhost[s].recAt >= 0)]
  /\ mx_last' = MxEntry("destroy", s)
  /\ UNCHANGED <<mx_created, mx_sessData, mx_sessExit, mx_globalData, mx_globalExit,
                 mx_timers, mx_now, mx_exited, mx_n, mx_flushCount, mx_liveCount>>
  /\ UNCHANGED <<iwVars, bkVars, ctlVars, evVars, extVars>>
MxDestroy(s) == Destroy(s) /\ UNCHANGED obsVars

\* The output path and the exit path of the multiplexer read and write disjoint
\* registries (backlog and output listeners; delayed exit record, exit listeners
\* and timers); only emitTerminalExit and destroy touch both.  Each path is
\* explored with all the operations that touch its registries.
MxDataNext ==
  \/ \E s \in MxSessions, len \in MxChunkLens : MxEmitData(s, len)
  \/ \E s \in MxSessions, code \in MxExitCodes : MxEmitExit(s, code)
  \/ \E l \in MxGlobalDataL : MxOnData(l)
  \/ \E l \in MxGlobalDataL : MxOffData(l)
  \/ \E s \in MxSessions, l \in MxDataL : MxOnDataForSession(s, l)
  \/ \E s \in MxSessions, l \in MxDataL : MxOffDataForSession(s, l)
  \/ \E s \in MxSessions : MxDestroy(s)

MxExitNext ==
  \/ \E s \in MxSessions, code \in MxExitCodes : MxEmitExit(s, code)
  \/ \E t \in mx_timers : MxExitTimerFires(t)
  \/ MxTick
  \/ \E l \in MxGlobalExitL : MxOnExit(l)
  \/ \E l \in MxGlobalExitL : MxOffExit(l)
  \/ \E s \in MxSessions, l \in MxExitL : MxOnExitForSession(s, l)
  \/ \E s \in MxSessions, l \in MxExitL : MxOffExitForSession(s, l)
  \/ \E s \in MxSessions : MxDestroy(s)

\* Ghost bookkeeping of the output path, read off the operation just made:
\* what the backend has emitted for each session, what each registered
\* per-session output listener has been given since it was registered, and the
\* chunks that left a backlog without being given to a listener.
ObserveOutput ==
  LET op == mx_last'
      gone(s) == ChunksOf(mx_data[s].str) \ ChunksOf(mx_data'[s].str)
  IN  /\ mx_emitted' = IF op.kind = "data" THEN [mx_emitted EXCEPT ![op.sid] = @ \o op.data]
                       ELSE IF op.kind = "exit" THEN [mx_emitted EXCEPT ![op.sid] = <<>>]
                       ELSE mx_emitted
      /\ mx_recv' = [s \in MxSessions |-> [l \in MxDataL |->
                       IF l \notin mx_sessData'[s] THEN <<>>
                       ELSE IF op.kind = "data" /\ op.sid = s /\ l \in op.to
                         THEN mx_recv[s][l] \o op.data
                       ELSE IF op.kind = "attachData" /\ op.sid = s /\ op.l = l
                         THEN (IF op.delivered = <<>> THEN <<>> ELSE op.delivered[1])
                       ELSE mx_recv[s][l]]]
      /\ mx_fate' = [c \in MxChunks |->
                       IF op.kind = "data" /\ c \in gone(op.sid) THEN "cut"
                       ELSE IF op.kind = "destroy" /\ c \in gone(op.sid) THEN "discarded"
                       ELSE mx_fate[c]]
      /\ UNCHANGED mx_handles

ObsEmitData(s, len) == EmitTerminalData(s, len) /\ ObserveOutput
ObsOnDataForSession(s, l) == OnDataForSession(s, l) /\ ObserveOutput
ObsOffDataForSession(s, l) == UnsubDataForSession(s, l) /\ ObserveOutput
ObsDestroy(s) == Destroy(s) /\ ObserveOutput

\* The output path of the multiplexer while its sessions run, with the
\* deliveries to the per-session output listeners recorded.  The backend emits
\* non-empty chunks.
MxOrderNext ==
  \/ \E s \in MxSessions, len \in MxChunkLens \ {0} : ObsEmitData(s, len)
  \/ \E s \in MxSessions, l \in MxDataL : ObsOnDataForSession(s, l)
  \/ \E s \in MxSessions, l \in MxDataL : ObsOffDataForSession(s, l)
  \/ \E s \in MxSessions : ObsDestroy(s)

(***************************************************************************)
(* The same two handlers with listeners that throw.  A Set is walked in    *)
(* insertion order; the listeners of one registry are numbered in that     *)
(* order.                                                                  *)
(***************************************************************************)
MaxThrowChunks == 2
NThrowSessions == 1
ThrowSessions == 1 .. Min(NThrowSessions, NSessions)
Rank(l) == l[2]

\* listeners.forEach((fn) => { try { fn(event); } catch {} }), part_000:73-77,
\* 81-85, 100-104 and 108-112: the listeners called, and whether an exception
\* leaves the loop
ForEachUnguarded(listeners, throws) ==
  LET bad == listeners \cap throws
      first == CHOOSE l \in bad : \A m \in bad : Rank(l) <= Rank(m)
  IN  IF bad = {} THEN [called |-> listeners, escaped |-> FALSE]
      ELSE [called |-> {l \in listeners : Rank(l) <= Rank(first)}, escaped |-> TRUE]
ForEach(listeners, throws) ==
  [called |-> listeners, escaped |-> FALSE]

\* A loop that is not reached because an exception left the handler before it.
NotReached == [called |-> {}, escaped |-> TRUE]

\* emitTerminalData, part_000:70-95, with the listeners in `throws` throwing
ThrowEmitData(s, len, throws) ==
  /\ s \notin mx_exited
  /\ mx_n < MaxThrowChunks
  /\ throws \subseteq mx_globalData \cup mx_sessData[s]
  /\ mx_n' = mx_n + 1
  /\ LET data == Chunk(mx_n + 1, len)
         g == ForEach(mx_globalData, throws)
         live == DeliversLive(mx_sessData[s])
         t == IF g.escaped THEN NotReached
              ELSE IF live THEN ForEach(mx_sessData[s], throws)
              ELSE [called |-> {}, escaped |-> FALSE]
         buffers == ~t.escaped /\ ~live
     IN /\ mx_data' = IF buffers THEN [mx_data EXCEPT ![s] = MuxBuffer(@, data)] ELSE mx_data
        /\ mx_hist' = IF buffers THEN [mx_hist EXCEPT ![s] = @ \o data] ELSE mx_hist
        /\ mx_liveCount' = IF t.called # {} THEN [mx_liveCount EXCEPT ![mx_n + 1] = Bump(@)]
                           ELSE mx_liveCount
        /\ mx_last' = [MxEntry("data", s) EXCEPT
                        !.data = data, !.global = g.called, !.to = t.called,
                        !.buffered = buffers, !.before = mx_data[s].str,
                        !.reg = mx_globalData \cup mx_sessData[s],
                        !.threw = throws, !.escaped = t.escaped]
  /\ UNCHANGED <<mx_cwd, mx_created, mx_exit, mx_sessData, mx_sessExit, mx_globalData, mx_globalExit,
                 mx_timers, mx_now, mx_exited, mx_flushCount, mx_exitGhost>>
  /\ UNCHANGED <<iwVars, bkVars, ctlVars, obsVars, evVars, extVars>>

\* emitTerminalExit, part_000:97-124, with the listeners in `throws` throwing
ThrowEmitExit(s, code, throws) ==
  /\ s \notin mx_exited
  /\ throws \subseteq mx_globalExit \cup mx_sessExit[s]
  /\ mx_exited' = mx_exited \cup {s}
  /\ LET g == ForEach(mx_globalExit, throws)
         live == mx_sessExit[s] # {}
         t == IF g.escaped THEN NotReached
              ELSE IF live THEN ForEach(mx_sessExit[s], throws)
              ELSE [called |-> {}, escaped |-> FALSE]
         records == ~t.escaped /\ ~live
         done == ~t.escaped
     IN /\ mx_exit' = IF records THEN [mx_exit EXCEPT ![s] = ExitRecord(code)] ELSE mx_exit
        /\ mx_timers' = IF records
                          THEN mx_timers \cup {[sid |-> s, at |-> MxExitDeadline(mx_now)]}
                          ELSE mx_timers
        /\ mx_exitGhost' = [mx_exitGhost EXCEPT ![s] =
                              IF records THEN [@ EXCEPT !.recAt = mx_now, !.code = code] ELSE @]
        /\ mx_data' = IF done THEN [mx_data EXCEPT ![s] = Absent] ELSE mx_data
        /\ mx_hist' = IF done THEN [mx_hist EXCEPT ![s] = <<>>] ELSE mx_hist
        /\ mx_sessData' = IF done THEN [mx_sessData EXCEPT ![s] = {}] ELSE mx_sessData
        /\ mx_sessExit' = IF done THEN [mx_sessExit EXCEPT ![s] = {}] ELSE mx_sessExit
        /\ mx_cwd' = IF done THEN ForgetCwd(mx_cwd, s) ELSE mx_cwd
        /\ mx_last' = [MxEntry("exit", s) EXCEPT
                        !.code = code, !.global = g.called, !.to = t.called,
                        !.buffered = records, !.before = mx_data[s].str,
                        !.reg = mx_globalExit \cup mx_sessExit[s],
                        !.threw = throws, !.escaped = t.escaped]
  /\ UNCHANGED <<mx_created, mx_globalData, mx_globalExit, mx_now, mx_n, mx_flushCount, mx_liveCount>>
  /\ UNCHANGED <<iwVars, bkVars, ctlVars, obsVars, evVars, extVars>>

MxThrowNext ==
  \/ \E s \in ThrowSessions, len \in MxChunkLens \ {0} :
       \E throws \in SUBSET (MxGlobalDataL \cup MxDataL) : ThrowEmitData(s, len, throws)
  \/ \E s \in ThrowSessions, code \in MxExitCodes :
       \E throws \in SUBSET (MxGlobalExitL \cup MxExitL) : ThrowEmitExit(s, code, throws)
  \/ \E l \in MxGlobalDataL : MxOnData(l)
  \/ \E l \in MxGlobalExitL : MxOnExit(l)
  \/ \E s \in ThrowSessions, l \in MxDataL : MxOnDataForSession(s, l)
  \/ \E s \in ThrowSessions, l \in MxExitL : MxOnExitForSession(s, l)

\* tauriAPI.terminal.create after its invoke has resolved, part_000:180-191.
\* The session exists in the backend from the moment the backend made it, so
\* its events can be handled before this continuation runs.
MxCreateReturns(s, cwd) ==
  /\ s \notin mx_created
  /\ mx_created' = mx_created \cup {s}
  /\ mx_cwd' = [mx_cwd EXCEPT ![s] = cwd]
  /\ mx_last' = MxOther
  /\ UNCHANGED <<mx_data, mx_exit, mx_sessData, mx_sessExit, mx_globalData, mx_globalExit,
                 mx_timers, mx_now, mx_exited, mx_n, mx_hist, mx_flushCount, mx_liveCount,
                 mx_exitGhost>>
  /\ UNCHANGED <<iwVars, bkVars, ctlVars, obsVars, evVars, extVars>>

\* The exit handler with all it tears down: two sessions with their working
\* directories, backlogs, per-session listeners and exit listeners that throw.
MxTeardownNext ==
  \/ \E s \in MxSessions, cwd \in MxPaths : MxCreateReturns(s, cwd)
  \/ \E s \in MxSessions : ThrowEmitData(s, 1, {})
  \/ \E s \in MxSessions, throws \in SUBSET (MxGlobalExitL \cup MxExitL) :
       ThrowEmitExit(s, 1, throws)
  \/ \E l \in MxGlobalExitL : MxOnExit(l)
  \/ \E s \in MxSessions : MxOnDataForSession(s, <<"d", 1>>)
  \/ \E s \in MxSessions, l \in MxExitL : MxOnExitForSession(s, l)

(***************************************************************************)
(* The unsubscribe closures of the multiplexer.  Each subscription call    *)
(* returns a closure over the registry, the session id and the listener    *)
(* function it was given; the closures handed out are numbered in order.   *)
(***************************************************************************)
MaxHandles == 2
MaxHandleCalls == 2

Handle(kind, s, l) == [kind |-> kind, sid |-> s, l |-> l, calls |-> 0]
HandOut(h) ==
  /\ Len(mx_handles) < MaxHandles
  /\ mx_handles' = Append(mx_handles, h)
  /\ UNCHANGED <<mx_emitted, mx_recv, mx_fate>>

\* a subscription call and the closure it returns
SubscribeData(l) == OnData(l) /\ HandOut(Handle("gd", 0, l))
SubscribeExit(l) == OnExit(l) /\ HandOut(Handle("ge", 0, l))
SubscribeDataForSession(s, l) == OnDataForSession(s, l) /\ HandOut(Handle("d", s, l))
SubscribeExitForSession(s, l) == OnExitForSession(s, l) /\ HandOut(Handle("e", s, l))

\* a call of the closure numbered h
CallHandle(h) ==
  /\ h \in 1 .. Len(mx_handles)
  /\ mx_handles[h].calls < MaxHandleCalls
  /\ mx_handles' = [mx_handles EXCEPT ![h].calls = @ + 1]
  /\ UNCHANGED <<mx_emitted, mx_recv, mx_fate>>
  /\ LET c == mx_handles[h]
     IN \/ c.kind = "gd" /\ UnsubData(c.l)
        \/ c.kind = "ge" /\ UnsubExit(c.l)
        \/ c.kind = "d" /\ UnsubDataForSession(c.sid, c.l)
        \/ c.kind = "e" /\ UnsubExitForSession(c.sid, c.l)

MxHandleNext ==
  \/ \E l \in MxGlobalDataL : SubscribeData(l)
  \/ \E l \in MxGlobalExitL : SubscribeExit(l)
  \/ \E s \in MxSessions, l \in MxDataL : SubscribeDataForSession(s, l)
  \/ \E s \in MxSessions, l \in MxExitL : SubscribeExitForSession(s, l)
  \/ \E h \in 1 .. MaxHandles : CallHandle(h)
  \/ \E s \in MxSessions, code \in MxExitCodes : MxEmitExit(s, code)

(***************************************************************************)
(* Terminal event setup of the renderer bridge (part_001:206-247; the same *)
(* code is in openspaceBridge.ts:224-265).  The backend answers each       *)
(* listen call on its own: it registers the handler and resolves, or it    *)
(* rejects.  Promise.all settles as soon as one of its calls rejects; the  *)
(* calls still pending are answered all the same.                          *)
(***************************************************************************)
NAliases == 3
MaxSetups == 2

EvKinds == {"output", "exit"}
EvNames == EvKinds \X (1 .. NAliases)

EvInit ==
  /\ ev_ready = FALSE
  /\ ev_promise = 0
  /\ ev_setups = 0
  /\ ev_stage = "idle"
  /\ ev_listens = <<>>
  /\ ev_handlers = [n \in EvNames |-> 0]
  /\ ev_unlisteners = {}
  /\ ev_waiters = 0

\* TAURI_EVENTS.terminalOutput.map((eventName) => listen(eventName, ...))
RECURSIVE ListenAll(_, _, _)
ListenAll(setup, kind, alias) ==
  IF alias > NAliases THEN <<>>
  ELSE <<[setup |-> setup, name |-> <<kind, alias>>, st |-> "pending"]>>
         \o ListenAll(setup, kind, alias + 1)

\* The listen calls of the running setup for the names of one kind.
StageCalls(kind) ==
  {i \in 1 .. Len(ev_listens) : ev_listens[i].setup = ev_promise /\ ev_listens[i].name[1] = kind}

\* ensureTerminalEvents with no setup in flight, part_001:206-221: it starts one
StartSetup ==
  /\ ~ev_ready
  /\ ev_promise = 0
  /\ ev_setups < MaxSetups
  /\ ev_setups' = ev_setups + 1
  /\ ev_promise' = ev_setups + 1
  /\ ev_stage' = "output"
  /\ ev_listens' = ev_listens \o ListenAll(ev_setups + 1, "output", 1)
  /\ UNCHANGED <<ev_ready, ev_handlers, ev_unlisteners, ev_waiters>>
  /\ UNCHANGED <<iwVars, bkVars, mxVars, ctlVars, obsVars>>

EnsureStartsSetup == StartSetup /\ UNCHANGED extVars

\* ensureTerminalEvents while a setup is in flight, part_001:211-214: it awaits it
EnsureJoinsSetup ==
  /\ ~ev_ready
  /\ ev_promise # 0
  /\ ev_waiters < 2
  /\ ev_waiters' = ev_waiters + 1
  /\ UNCHANGED <<ev_ready, ev_promise, ev_setups, ev_stage, ev_listens, ev_handlers, ev_unlisteners>>
  /\ UNCHANGED <<iwVars, bkVars, mxVars, ctlVars, obsVars, extVars>>

\* the backend registers the handler of listen call i and resolves the call
ListenResolves(i) ==
  /\ i \in 1 .. Len(ev_listens)
  /\ ev_listens[i].st = "pending"
  /\ ev_listens' = [ev_listens EXCEPT ![i].st = "ok"]
  /\ ev_handlers' = [ev_handlers EXCEPT ![ev_listens[i].name] = @ + 1]
  /\ UNCHANGED <<ev_ready, ev_promise, ev_setups, ev_stage, ev_unlisteners, ev_waiters>>
  /\ UNCHANGED <<iwVars, bkVars, mxVars, ctlVars, obsVars, extVars>>

\* the backend rejects listen call i
ListenRejects(i) ==
  /\ i \in 1 .. Len(ev_listens)
  /\ ev_listens[i].st = "pending"
  /\ ev_listens' = [ev_listens EXCEPT ![i].st = "failed"]
  /\ UNCHANGED <<ev_ready, ev_promise, ev_setups, ev_stage, ev_handlers, ev_unlisteners, ev_waiters>>
  /\ UNCHANGED <<iwVars, bkVars, mxVars, ctlVars, obsVars, extVars>>

\* the first Promise.all resolved, part_001:223-236: the exit names are listened to
OutputStageDone ==
  /\ ev_stage = "output"
  /\ \A i \in StageCalls("output") : ev_listens[i].st = "ok"
  /\ ev_stage' = "exit"
  /\ ev_listens' = ev_listens \o ListenAll(ev_promise, "exit", 1)
  /\ UNCHANGED <<ev_ready, ev_promise, ev_setups, ev_handlers, ev_unlisteners, ev_waiters>>
  /\ UNCHANGED <<iwVars, bkVars, mxVars, ctlVars, obsVars, extVars>>

\* replaceTerminalEventUnlisteners, part_001:171-180: the handlers kept so far
\* are unregistered
Unlistened(handlers, old) ==
  [n \in EvNames |-> handlers[n] - Cardinality({i \in old : ev_listens[i].name = n})]

\* the second Promise.all resolved, part_001:237-238 and the finally of 242-244
ExitStageDone ==
  /\ ev_stage = "exit"
  /\ \A i \in StageCalls("exit") : ev_listens[i].st = "ok"
  /\ ev_handlers' = Unlistened(ev_handlers, ev_unlisteners)
  /\ ev_unlisteners' = StageCalls("output") \cup StageCalls("exit")
  /\ ev_ready' = TRUE
  /\ ev_stage' = "idle"
  /\ ev_promise' = 0
  /\ ev_waiters' = 0
  /\ UNCHANGED <<ev_setups, ev_listens>>
  /\ UNCHANGED <<iwVars, bkVars, mxVars, ctlVars, obsVars, extVars>>

\* a Promise.all rejected, part_001:239-244: the catch logs, the finally clears
\* the promise; the unlisten functions of the calls that resolved are dropped
StageFails ==
  /\ ev_stage \in EvKinds
  /\ \E i \in StageCalls(ev_stage) : ev_listens[i].st = "failed"
  /\ ev_stage' = "idle"
  /\ ev_promise' = 0
  /\ ev_waiters' = 0
  /\ UNCHANGED <<ev_ready, ev_setups, ev_listens, ev_handlers, ev_unlisteners>>
  /\ UNCHANGED <<iwVars, bkVars, mxVars, ctlVars, obsVars, extVars>>

EvNext ==
  \/ EnsureStartsSetup
  \/ EnsureJoinsSetup
  \/ \E i \in 1 .. 2 * NAliases * MaxSetups : ListenResolves(i)
  \/ \E i \in 1 .. 2 * NAliases * MaxSetups : ListenRejects(i)
  \/ OutputStageDone
  \/ ExitStageDone
  \/ StageFails

(***************************************************************************)
(* Pane runtime controller (App.tsx) on top of the renderer bridge and     *)
(* the backend.                                                            *)
(*                                                                         *)
(* Panes are terminal-1 .. terminal-N, written 1..N.  A createTerminal     *)
(* call is identified by its position in ctl_calls; the backend gives      *)
(* every session it creates a fresh id, written as the number of the call  *)
(* that created it.  0 stands for "no entry" in every map.                 *)
(*                                                                         *)
(* A handler runs to completion (one macrotask and the microtasks it       *)
(* queues).  Handlers are written as functions on the record CtlK of the   *)
(* controller's mutable state, so that a handler that calls another is     *)
(* the composition of the two.                                             *)
(*                                                                         *)
(* The backend answers a createTerminal call with a new session or with an *)
(* error; the walk over command names and payload shapes that carries the  *)
(* call is the subject of SpecInvoke.  The response of a call and the      *)
(* events of the session it created travel separately, so an output or     *)
(* exit event can reach its listener before the response reaches the       *)
(* .then of ensurePaneSession.  The controller's two listeners are         *)
(* registered by the effects of the first commit, before any create call   *)
(* is sent.                                                                *)
(***************************************************************************)
NPanes == 2
MaxCalls == 3
MaxPendingRuns == 1
MAX_TERMINAL_PANES == 16
INITIAL_PANE_COUNT == 4
WAIT_ATTEMPTS == 24

Panes == 1 .. Min(NPanes, MAX_TERMINAL_PANES)
CtlSessions == 1 .. MaxCalls

\* Promise states of ensurePaneSession's create chain.
Unsettled(st) == st \in {"waiting", "invoking", "created", "failed"}
\* rendererBridge.createTerminal has been called.
Issued(st) == st \in {"invoking", "created", "failed", "resolved", "rejected"}

CtlK ==
  [runtimes    |-> ctl_runtimes,
   paneSession |-> ctl_paneSession,
   sessionPane |-> ctl_sessionPane,
   creating    |-> ctl_creating,
   calls       |-> ctl_calls,
   killed      |-> be_killed,
   effect      |-> ctl_effect,
   stale       |-> ctl_stale,
   outLost     |-> ctl_outLost,
   full        |-> FALSE]

\* The backend has created session s and the response that makes the
\* controller register it (the .then of ensurePaneSession) is still on its way.
AwaitsRegistration(s) == s <= Len(ctl_calls) /\ ctl_calls[s].st = "created"

\* Ghost bookkeeping: a dropped output event is remembered until the handler
\* that registers the session has run; the state that handler leaves still
\* shows it.
StillOwed(lost) == {s \in lost : AwaitsRegistration(s)}

SetK(k) ==
  /\ ctl_runtimes' = k.runtimes
  /\ ctl_paneSession' = k.paneSession
  /\ ctl_sessionPane' = k.sessionPane
  /\ ctl_creating' = k.creating
  /\ ctl_calls' = k.calls
  /\ be_killed' = k.killed
  /\ ctl_effect' = k.effect
  /\ ctl_stale' = k.stale
  /\ ctl_outLost' = StillOwed(k.outLost)

\* updatePane: setTerminalPanes gives terminalPanes, hence visibleTerminals, a
\* new identity, so the reconciliation effect runs again after the next commit.
UpdatePane(k) == [k EXCEPT !.effect = TRUE]

\* rendererBridge.writeTerminal / resizeTerminal issued for session s.
\* Ghost: k.stale records a call addressed to a session whose exit event the
\* controller's exit handler has already been given.
BridgeCall(k, s, seen) == [k EXCEPT !.stale = @ \/ (s \in seen)]

\* rendererBridge.killTerminal issued for session s (fire and forget).
KillTerminal(k, s) ==
  IF be_sessions[s] = "alive" THEN [k EXCEPT !.killed = @ \cup {s}] ELSE k

ResizePaneTerminal(k, p, seen) ==
  IF k.runtimes[p] = 0 THEN k
  ELSE IF k.paneSession[p] = 0 THEN k
  ELSE BridgeCall(k, k.paneSession[p], seen)

\* ensurePaneSession up to its first await.  cmd: the caller is
\* handleRunPaneCommand, which writes to the session once the promise
\* resolves.  respawn: the session whose exit event made the call (ghost).
\* A call that would exceed MaxCalls sets k.full, which disables the action.
EnsurePaneSession(k, p, cmd, respawn, seen) ==
  LET existing == k.paneSession[p]
      inFlight == k.creating[p]
      id == Len(k.calls) + 1
      mounted == k.runtimes[p] # 0
      open == {c \in 1 .. Len(k.calls) : k.calls[c].pane = p /\ Unsettled(k.calls[c].st)}
      call == [pane |-> p, st |-> IF mounted THEN "invoking" ELSE "waiting",
               attempt |-> 0, cmd |-> cmd, overlap |-> open, respawn |-> respawn]
  IN  IF existing # 0 THEN (IF cmd THEN BridgeCall(k, existing, seen) ELSE k)
      ELSE IF inFlight # 0
        THEN [k EXCEPT !.calls[inFlight].cmd = @ \/ cmd,
                       !.calls[inFlight].respawn = IF respawn # 0 THEN respawn ELSE @]
      ELSE IF id > MaxCalls THEN [k EXCEPT !.full = TRUE]
      ELSE [k EXCEPT !.calls = Append(@, call),
                     !.creating[p] = IF mounted THEN id ELSE @]

DisposePaneRuntime(k, p, killSession, resetPaneState) ==
  LET s  == k.paneSession[p]
      k1 == [k EXCEPT !.runtimes[p] = 0, !.paneSession[p] = 0, !.creating[p] = 0]
      k2 == IF s = 0 THEN k1
            ELSE LET k3 == [k1 EXCEPT !.sessionPane[s] = 0]
                 IN  IF killSession THEN KillTerminal(k3, s) ELSE k3
  IN  IF resetPaneState THEN UpdatePane(k2) ELSE k2

CreatePaneRuntime(k, p, host, seen) ==
  LET k1 == [k EXCEPT !.runtimes[p] = host]
  IN  EnsurePaneSession(ResizePaneTerminal(k1, p, seen), p, FALSE, 0, seen)

\* Body of the first loop of the reconciliation effect, for one visible pane.
ReconcilePane(k, p, seen) ==
  LET host == ctl_hosts[p]
      k1 == IF k.runtimes[p] # 0 /\ k.runtimes[p] # host
              THEN DisposePaneRuntime(k, p, TRUE, TRUE) ELSE k
  IN  IF host = 0 THEN k
      ELSE IF k1.runtimes[p] = 0 THEN CreatePaneRuntime(k1, p, host, seen)
      ELSE EnsurePaneSession(ResizePaneTerminal(k1, p, seen), p, FALSE, 0, seen)

RECURSIVE ReconcileVisible(_, _, _)
ReconcileVisible(k, p, seen) ==
  IF p > ctl_paneCount THEN k
  ELSE ReconcileVisible(ReconcilePane(k, p, seen), p + 1, seen)

\* Second loop: runtimes of panes that are no longer visible.
RECURSIVE DisposeHidden(_, _)
DisposeHidden(k, p) ==
  IF p > Max(NPanes, ctl_paneCount) THEN k
  ELSE DisposeHidden(IF p > ctl_paneCount /\ k.runtimes[p] # 0
                       THEN DisposePaneRuntime(k, p, TRUE, TRUE) ELSE k, p + 1)

\* The element React mounts for a pane's host div: one the runtime does not hold.
FreshHost(p) == IF ctl_runtimes[p] = 1 THEN 2 ELSE 1

\* The exit handler respawns only for a pane that still has a runtime.
ExitRespawnsNever(k, p) == FALSE
ExitRespawns(k, p) == k.runtimes[p] # 0

\* The exit listener the controller registers with onTerminalExit.
OnTerminalExit(k, s, seen) ==
  LET p  == k.sessionPane[s]
      k1 == UpdatePane([k EXCEPT !.sessionPane[s] = 0, !.paneSession[p] = 0])
  IN  IF p = 0 THEN k
      ELSE IF ExitRespawns(k1, p) THEN EnsurePaneSession(k1, p, FALSE, s, seen)
      ELSE k1

\* The state after the first commit and its effects: every visible pane has
\* its host element and its runtime, and createPaneRuntime has called
\* ensurePaneSession for it, in pane order.
InitialPanes == 1 .. Min(INITIAL_PANE_COUNT, Min(NPanes, MAX_TERMINAL_PANES))

CtlInit ==
  /\ ctl_paneCount = Cardinality(InitialPanes)
  /\ ctl_hosts = [p \in Panes |-> IF p \in InitialPanes THEN 1 ELSE 0]
  /\ ctl_runtimes = [p \in Panes |-> IF p \in InitialPanes THEN 1 ELSE 0]
  /\ ctl_paneSession = [p \in Panes |-> 0]
  /\ ctl_sessionPane = [s \in CtlSessions |-> 0]
  /\ ctl_creating = [p \in Panes |-> IF p \in InitialPanes THEN p ELSE 0]
  /\ ctl_calls = [p \in InitialPanes |->
                    [pane |-> p, st |-> "invoking", attempt |-> 0, cmd |-> FALSE,
                     overlap |-> {}, respawn |-> 0]]
  /\ ctl_effect = FALSE
  /\ be_sessions = [s \in CtlSessions |-> "none"]
  /\ be_killed = {}
  /\ ctl_exitSeen = {}
  /\ ctl_outLost = {}
  /\ ctl_stale = FALSE

\* handleTerminalCountChange, then React's render and commit: the ref callbacks
\* of getTerminalHostRef record the host elements of the panes that appeared and
\* forget those of the panes that went away.  React flushes the passive effects
\* of the previous commit before it renders again.
SetPaneCount(n) ==
  /\ ~ctl_effect
  /\ n # ctl_paneCount
  /\ ctl_paneCount' = n
  /\ ctl_hosts' = [p \in Panes |-> IF p > n THEN 0
                                   ELSE IF ctl_hosts[p] # 0 THEN ctl_hosts[p]
                                   ELSE FreshHost(p)]
  /\ ctl_effect' = TRUE
  /\ UNCHANGED <<ctl_runtimes, ctl_paneSession, ctl_sessionPane, ctl_creating, ctl_calls,
                 be_sessions, be_killed, ctl_exitSeen, ctl_stale>>
  /\ ctl_outLost' = StillOwed(ctl_outLost)
  /\ UNCHANGED <<iwVars, bkVars, mxVars, obsVars, evVars, extVars>>

\* handlePaneCommandChange: updatePane only.
PaneEdit(p) ==
  /\ p <= ctl_paneCount
  /\ ~ctl_effect
  /\ ctl_effect' = TRUE
  /\ UNCHANGED <<ctl_paneCount, ctl_hosts, ctl_runtimes, ctl_paneSession, ctl_sessionPane,
                 ctl_creating, ctl_calls, be_sessions, be_killed, ctl_exitSeen, ctl_stale>>
  /\ ctl_outLost' = StillOwed(ctl_outLost)
  /\ UNCHANGED <<iwVars, bkVars, mxVars, obsVars, evVars, extVars>>

\* The reconciliation effect.
ReconcileEffect ==
  /\ ctl_effect
  /\ LET k0 == [CtlK EXCEPT !.effect = FALSE]
         k  == DisposeHidden(ReconcileVisible(k0, 1, ctl_exitSeen), 1)
     IN  ~k.full /\ SetK(k)
  /\ UNCHANGED <<ctl_paneCount, ctl_hosts, be_sessions, ctl_exitSeen>>
  /\ UNCHANGED <<iwVars, bkVars, mxVars, obsVars, evVars, extVars>>

\* The handleRunPaneCommand calls that await a session.
PendingRuns == {c \in 1 .. Len(ctl_calls) : ctl_calls[c].cmd}

\* handleRunPaneCommand, from the pane's form or from the timers of
\* handleApplyTemplate, which name panes that need not be mounted.
RunCommand(p) ==
  /\ Cardinality(PendingRuns) < MaxPendingRuns
  /\ LET k == EnsurePaneSession(UpdatePane(CtlK), p, TRUE, 0, ctl_exitSeen)
     IN  ~k.full /\ SetK(k)
  /\ UNCHANGED <<ctl_paneCount, ctl_hosts, be_sessions, ctl_exitSeen>>
  /\ UNCHANGED <<iwVars, bkVars, mxVars, obsVars, evVars, extVars>>

\* One turn of ensurePaneSession's wait loop: waitFor(50), then look again.
WaitPoll(c) ==
  /\ c \in 1 .. Len(ctl_calls)
  /\ ctl_calls[c].st = "waiting"
  /\ LET p == ctl_calls[c].pane
         n == ctl_calls[c].attempt + 1
     IN  IF ctl_runtimes[p] # 0
           THEN /\ ctl_calls' = [ctl_calls EXCEPT ![c].st = "invoking", ![c].attempt = 0]
                /\ ctl_creating' = [ctl_creating EXCEPT ![p] = c]
                /\ UNCHANGED ctl_effect
         ELSE IF n < WAIT_ATTEMPTS
           THEN /\ ctl_calls' = [ctl_calls EXCEPT ![c].attempt = n]
                /\ UNCHANGED <<ctl_creating, ctl_effect>>
         ELSE /\ ctl_calls' = [ctl_calls EXCEPT ![c].st = "threw", ![c].attempt = 0,
                                                ![c].cmd = FALSE]
              /\ ctl_effect' = (ctl_effect \/ ctl_calls[c].cmd)
              /\ UNCHANGED ctl_creating
  /\ UNCHANGED <<ctl_paneCount, ctl_hosts, ctl_runtimes, ctl_paneSession, ctl_sessionPane,
                 be_sessions, be_killed, ctl_exitSeen, ctl_stale>>
  /\ ctl_outLost' = StillOwed(ctl_outLost)
  /\ UNCHANGED <<iwVars, bkVars, mxVars, obsVars, evVars, extVars>>

\* The backend serves terminal_create: a new session, or an error.
BackendCreateOk(c) ==
  /\ c \in 1 .. Len(ctl_calls)
  /\ ctl_calls[c].st = "invoking"
  /\ ctl_calls' = [ctl_calls EXCEPT ![c].st = "created"]
  /\ be_sessions' = [be_sessions EXCEPT ![c] = "alive"]
  /\ UNCHANGED <<ctl_paneCount, ctl_hosts, ctl_runtimes, ctl_paneSession, ctl_sessionPane,
                 ctl_creating, ctl_effect, be_killed, ctl_exitSeen, ctl_stale>>
  /\ ctl_outLost' = StillOwed(ctl_outLost)
  /\ UNCHANGED <<iwVars, bkVars, mxVars, obsVars, evVars, extVars>>

BackendCreateFail(c) ==
  /\ c \in 1 .. Len(ctl_calls)
  /\ ctl_calls[c].st = "invoking"
  /\ ctl_calls' = [ctl_calls EXCEPT ![c].st = "failed"]
  /\ UNCHANGED <<ctl_paneCount, ctl_hosts, ctl_runtimes, ctl_paneSession, ctl_sessionPane,
                 ctl_creating, ctl_effect, be_sessions, be_killed, ctl_exitSeen, ctl_stale>>
  /\ ctl_outLost' = StillOwed(ctl_outLost)
  /\ UNCHANGED <<iwVars, bkVars, mxVars, obsVars, evVars, extVars>>

\* The create response arrives: .then, .finally, and the continuation of a
\* handleRunPaneCommand that awaits the promise.
CreateResolved(c) ==
  /\ c \in 1 .. Len(ctl_calls)
  /\ ctl_calls[c].st = "created"
  /\ LET p  == ctl_calls[c].pane
         k1 == UpdatePane([CtlK EXCEPT !.paneSession[p] = c, !.sessionPane[c] = p])
         k2 == ResizePaneTerminal(k1, p, ctl_exitSeen)
         k3 == [k2 EXCEPT !.creating[p] = 0]
         k4 == IF ctl_calls[c].cmd THEN BridgeCall(k3, c, ctl_exitSeen) ELSE k3
     IN  SetK([k4 EXCEPT !.calls[c].st = "resolved", !.calls[c].cmd = FALSE])
  /\ UNCHANGED <<ctl_paneCount, ctl_hosts, be_sessions, ctl_exitSeen>>
  /\ UNCHANGED <<iwVars, bkVars, mxVars, obsVars, evVars, extVars>>

\* The create error arrives: .catch, .finally, and the catch of an awaiting
\* handleRunPaneCommand.
CreateRejected(c) ==
  /\ c \in 1 .. Len(ctl_calls)
  /\ ctl_calls[c].st = "failed"
  /\ LET p  == ctl_calls[c].pane
         k1 == UpdatePane(CtlK)
         k2 == [k1 EXCEPT !.creating[p] = 0]
     IN  SetK([k2 EXCEPT !.calls[c].st = "rejected", !.calls[c].cmd = FALSE])
  /\ UNCHANGED <<ctl_paneCount, ctl_hosts, be_sessions, ctl_exitSeen>>
  /\ UNCHANGED <<iwVars, bkVars, mxVars, obsVars, evVars, extVars>>

\* A terminal output event reaches the controller's output listener.
\* Ghost: ctl_outLost collects the sessions for which the listener returned
\* without writing because the session's mapping was not registered yet.
BackendOutput(s) ==
  /\ be_sessions[s] = "alive"
  /\ SetK(IF ctl_sessionPane[s] = 0 /\ AwaitsRegistration(s)
            THEN [CtlK EXCEPT !.outLost = @ \cup {s}] ELSE CtlK)
  /\ UNCHANGED <<ctl_paneCount, ctl_hosts, be_sessions, ctl_exitSeen>>
  /\ UNCHANGED <<iwVars, bkVars, mxVars, obsVars, evVars, extVars>>

\* The session's process ends (by itself or after a kill) and its exit event
\* reaches the controller's exit listener.
BackendExit(s) ==
  /\ be_sessions[s] = "alive"
  /\ be_sessions' = [be_sessions EXCEPT ![s] = "exited"]
  /\ ctl_exitSeen' = ctl_exitSeen \cup {s}
  /\ LET k == OnTerminalExit([CtlK EXCEPT !.killed = @ \ {s}], s, ctl_exitSeen \cup {s})
     IN  ~k.full /\ SetK(k)
  /\ UNCHANGED <<ctl_paneCount, ctl_hosts>>
  /\ UNCHANGED <<iwVars, bkVars, mxVars, obsVars, evVars, extVars>>

\* terminal.onData of a pane's surface: a keystroke.
Keystroke(p) ==
  /\ ctl_runtimes[p] # 0
  /\ ctl_paneSession[p] # 0
  /\ SetK(BridgeCall(CtlK, ctl_paneSession[p], ctl_exitSeen))
  /\ UNCHANGED <<ctl_paneCount, ctl_hosts, be_sessions, ctl_exitSeen>>
  /\ UNCHANGED <<iwVars, bkVars, mxVars, obsVars, evVars, extVars>>

\* The animation frame requested by the pane's ResizeObserver.
ResizeFrame(p) ==
  /\ ctl_runtimes[p] # 0
  /\ SetK(ResizePaneTerminal(CtlK, p, ctl_exitSeen))
  /\ UNCHANGED <<ctl_paneCount, ctl_hosts, be_sessions, ctl_exitSeen>>
  /\ UNCHANGED <<iwVars, bkVars, mxVars, obsVars, evVars, extVars>>

CtlNext ==
  \/ \E n \in Panes : SetPaneCount(n)
  \/ \E p \in Panes : PaneEdit(p)
  \/ ReconcileEffect
  \/ \E p \in Panes : RunCommand(p)
  \/ \E c \in 1 .. MaxCalls : WaitPoll(c)
  \/ \E c \in 1 .. MaxCalls : BackendCreateOk(c)
  \/ \E c \in 1 .. MaxCalls : BackendCreateFail(c)
  \/ \E c \in 1 .. MaxCalls : CreateResolved(c)
  \/ \E c \in 1 .. MaxCalls : CreateRejected(c)
  \/ \E s \in CtlSessions : BackendOutput(s)
  \/ \E s \in CtlSessions : BackendExit(s)
  \/ \E p \in Panes : Keystroke(p)
  \/ \E p \in Panes : ResizeFrame(p)

(***************************************************************************)
(* killTerminal of the renderer bridge (part_001:497-520) under            *)
(* disposePaneRuntime (App.tsx:1536-1572): what the renderer still holds   *)
(* of a session once the kill call has settled.  The backend answers a     *)
(* kill call with success or with an error.                                *)
(***************************************************************************)
NKillSessions == 2
NKillPanes == 1
MaxKillChunks == 2

KlSessions == 1 .. NKillSessions
KlPanes == 1 .. NKillPanes

KlInit ==
  /\ kl_runtime = [p \in KlPanes |-> TRUE]
  /\ kl_paneSession = [p \in KlPanes |-> 0]
  /\ kl_sessionPane = [s \in KlSessions |-> 0]
  /\ kl_out = [s \in KlSessions |-> Absent]
  /\ kl_kills = [s \in KlSessions |-> "none"]
  /\ kl_be = [s \in KlSessions |-> "none"]
  /\ kl_n = 0

\* createPaneRuntime: the pane gets a runtime
KlMount(p) ==
  /\ ~kl_runtime[p]
  /\ kl_runtime' = [kl_runtime EXCEPT ![p] = TRUE]
  /\ UNCHANGED <<kl_paneSession, kl_sessionPane, kl_out, kl_kills, kl_be, kl_n>>
  /\ UNCHANGED <<iwVars, bkVars, mxVars, ctlVars, obsVars, evVars, klFrame>>

\* createTerminal resolves with the new session s (part_001:442) and the .then
\* of ensurePaneSession registers it for pane p (App.tsx:1505-1507)
KlCreated(p, s) ==
  /\ kl_be[s] = "none"
  /\ \A o \in KlSessions : o < s => kl_be[o] # "none"
  /\ kl_be' = [kl_be EXCEPT ![s] = "alive"]
  /\ kl_out' = [kl_out EXCEPT ![s] = Present(<<>>)]
  /\ kl_paneSession' = [kl_paneSession EXCEPT ![p] = s]
  /\ kl_sessionPane' = [kl_sessionPane EXCEPT ![s] = p]
  /\ UNCHANGED <<kl_runtime, kl_kills, kl_n>>
  /\ UNCHANGED <<iwVars, bkVars, mxVars, ctlVars, obsVars, evVars, klFrame>>

\* an output event of session s: appendTerminalOutput (part_001:182-185)
KlOutput(s) ==
  /\ kl_be[s] = "alive"
  /\ kl_n < MaxKillChunks
  /\ kl_n' = kl_n + 1
  /\ kl_out' = [kl_out EXCEPT ![s] = BridgeBuffer(@, Chunk(kl_n + 1, 1))]
  /\ UNCHANGED <<kl_runtime, kl_paneSession, kl_sessionPane, kl_kills, kl_be>>
  /\ UNCHANGED <<iwVars, bkVars, mxVars, ctlVars, obsVars, evVars, klFrame>>

\* killTerminal(sessionId) up to its await, part_001:497-514
KillIssued(kills, s) == [kills EXCEPT ![s] = "pending"]

\* disposePaneRuntime(paneId, true), App.tsx:1538-1560
KlDispose(p) ==
  /\ kl_runtime[p]
  /\ LET s == kl_paneSession[p]
     IN  /\ kl_runtime' = [kl_runtime EXCEPT ![p] = FALSE]
         /\ kl_paneSession' = [kl_paneSession EXCEPT ![p] = 0]
         /\ IF s = 0
              THEN UNCHANGED <<kl_sessionPane, kl_kills>>
              ELSE /\ kl_sessionPane' = [kl_sessionPane EXCEPT ![s] = 0]
                   /\ kl_kills' = KillIssued(kl_kills, s)
  /\ UNCHANGED <<kl_out, kl_be, kl_n>>
  /\ UNCHANGED <<iwVars, bkVars, mxVars, ctlVars, obsVars, evVars, klFrame>>

\* What killTerminal does to the backlog when its call fails, part_001:516-519.
KillCatch(out, s) == out

\* the backend has killed session s: the rest of the try block, part_001:514-515
KlKillOk(s) ==
  /\ kl_kills[s] = "pending"
  /\ kl_be[s] = "alive"
  /\ kl_kills' = [kl_kills EXCEPT ![s] = "ok"]
  /\ kl_out' = [kl_out EXCEPT ![s] = Absent]
  /\ UNCHANGED <<kl_runtime, kl_paneSession, kl_sessionPane, kl_be, kl_n>>
  /\ UNCHANGED <<iwVars, bkVars, mxVars, ctlVars, obsVars, evVars, klFrame>>

\* the backend answers the kill call with an error: the catch, part_001:516-519
KlKillFails(s) ==
  /\ kl_kills[s] = "pending"
  /\ kl_kills' = [kl_kills EXCEPT ![s] = "failed"]
  /\ kl_out' = KillCatch(kl_out, s)
  /\ UNCHANGED <<kl_runtime, kl_paneSession, kl_sessionPane, kl_be, kl_n>>
  /\ UNCHANGED <<iwVars, bkVars, mxVars, ctlVars, obsVars, evVars, klFrame>>

\* the exit event of session s: handleTerminalExit (part_001:195-204) and the
\* controller's exit listener (App.tsx:1694-1701)
KlExit(s) ==
  /\ kl_be[s] = "alive"
  /\ kl_be' = [kl_be EXCEPT ![s] = "exited"]
  /\ kl_out' = [kl_out EXCEPT ![s] = Absent]
  /\ LET p == kl_sessionPane[s]
     IN  IF p = 0 THEN UNCHANGED <<kl_paneSession, kl_sessionPane>>
         ELSE /\ kl_sessionPane' = [kl_sessionPane EXCEPT ![s] = 0]
              /\ kl_paneSession' = [kl_paneSession EXCEPT ![p] = 0]
  /\ UNCHANGED <<kl_runtime, kl_kills, kl_n>>
  /\ UNCHANGED <<iwVars, bkVars, mxVars, ctlVars, obsVars, evVars, klFrame>>

KlNext ==
  \/ \E p \in KlPanes : KlMount(p)
  \/ \E p \in KlPanes, s \in KlSessions : KlCreated(p, s)
  \/ \E s \in KlSessions : KlOutput(s)
  \/ \E p \in KlPanes : KlDispose(p)
  \/ \E s \in KlSessions : KlKillOk(s)
  \/ \E s \in KlSessions : KlKillFails(s)
  \/ \E s \in KlSessions : KlExit(s)

(***************************************************************************)
(* The input path: the terminal.onData handler of a pane's surface         *)
(* (App.tsx:1597-1611) on top of writeTerminal (part_001:450-471).  The    *)
(* backend answers a write call with success or with an error; the walk    *)
(* over command names and payload shapes is the subject of SpecInvoke.     *)
(***************************************************************************)
NInputPanes == 1
NInputSessions == 2
MaxKeys == 3

InPanes == 1 .. NInputPanes
InSessions == 1 .. NInputSessions

InInit ==
  /\ in_paneSession = [p \in InPanes |-> 0]
  /\ in_status = [p \in InPanes |-> "idle"]
  /\ in_writes = <<>>
  /\ in_keys = <<>>
  /\ in_thrown = FALSE

\* the .then of ensurePaneSession, App.tsx:1505-1513
InBind(p, s) ==
  /\ in_paneSession[p] # s
  /\ in_paneSession' = [in_paneSession EXCEPT ![p] = s]
  /\ in_status' = [in_status EXCEPT ![p] = "idle"]
  /\ UNCHANGED <<in_writes, in_keys, in_thrown>>
  /\ UNCHANGED <<iwVars, bkVars, mxVars, ctlVars, obsVars, evVars, inFrame>>

\* disposePaneRuntime with resetPaneState, App.tsx:1550-1569
InUnbind(p) ==
  /\ in_paneSession[p] # 0
  /\ in_paneSession' = [in_paneSession EXCEPT ![p] = 0]
  /\ in_status' = [in_status EXCEPT ![p] = "idle"]
  /\ UNCHANGED <<in_writes, in_keys, in_thrown>>
  /\ UNCHANGED <<iwVars, bkVars, mxVars, ctlVars, obsVars, evVars, inFrame>>

\* The write calls the handler issues for a keystroke on a pane whose map
\* entry is sessionId, App.tsx:1598-1603.
InputWrites(p, sessionId) ==
  IF sessionId = 0 THEN <<>>
  ELSE <<[pane |-> p, sid |-> sessionId, st |-> "pending"]>>

\* terminal.onData of pane p's surface: a keystroke
TerminalOnData(p) ==
  /\ Len(in_keys) < MaxKeys
  /\ in_keys' = Append(in_keys, [pane |-> p, sid |-> in_paneSession[p]])
  /\ in_writes' = in_writes \o InputWrites(p, in_paneSession[p])
  /\ UNCHANGED <<in_paneSession, in_status, in_thrown>>
  /\ UNCHANGED <<iwVars, bkVars, mxVars, ctlVars, obsVars, evVars, inFrame>>

\* the write call i succeeds: nothing follows
InWriteOk(i) ==
  /\ i \in 1 .. Len(in_writes)
  /\ in_writes[i].st = "pending"
  /\ in_writes' = [in_writes EXCEPT ![i].st = "ok"]
  /\ UNCHANGED <<in_paneSession, in_status, in_keys, in_thrown>>
  /\ UNCHANGED <<iwVars, bkVars, mxVars, ctlVars, obsVars, evVars, inFrame>>

\* The .catch of the handler, App.tsx:1603-1610: what it makes of the pane's
\* status, and whether the rejection goes on.
WriteCatchNone(status, p) == [status |-> status, thrown |-> TRUE]
WriteCatch(status, p) == [status |-> [status EXCEPT ![p] = "error"], thrown |-> FALSE]

\* the write call i fails: writeTerminal rethrows (part_001:467-470) and the
\* .catch of the handler runs
InWriteFails(i) ==
  /\ i \in 1 .. Len(in_writes)
  /\ in_writes[i].st = "pending"
  /\ in_writes' = [in_writes EXCEPT ![i].st = "failed"]
  /\ LET r == WriteCatch(in_status, in_writes[i].pane)
     IN  /\ in_status' = r.status
         /\ in_thrown' = (in_thrown \/ r.thrown)
  /\ UNCHANGED <<in_paneSession, in_keys>>
  /\ UNCHANGED <<iwVars, bkVars, mxVars, ctlVars, obsVars, evVars, inFrame>>

InNext ==
  \/ \E p \in InPanes, s \in InSessions : InBind(p, s)
  \/ \E p \in InPanes : InUnbind(p)
  \/ \E p \in InPanes : TerminalOnData(p)
  \/ \E i \in 1 .. MaxKeys : InWriteOk(i)
  \/ \E i \in 1 .. MaxKeys : InWriteFails(i)

(***************************************************************************)
(* The resize path.  resizePaneTerminal (App.tsx:1454-1471) is called by   *)
(* the animation frame a pane's ResizeObserver requests (App.tsx:1618-     *)
(* 1626), by createPaneRuntime, by the reconciliation effect and by the    *)
(* .then of ensurePaneSession.  fit() gives the terminal whatever size the *)
(* host element allows.  tauriAPI.terminal.resize (part_000:201-210) is    *)
(* the other way a resize call reaches the backend; its callers are not    *)
(* in the repository's sources, so its arguments are unconstrained.        *)
(***************************************************************************)
NResizePanes == 1
NResizeSessions == 2
MaxFrames == 3
MaxDim == 3

RsPanes == 1 .. NResizePanes
RsSessions == 1 .. NResizeSessions
RsDims == 0 .. MaxDim

NoCall == [kind |-> "none", via |-> "-", pane |-> 0, sid |-> 0, bound |-> 0, cols |-> 0, rows |-> 0]

RsInit ==
  /\ rs_runtime = [p \in RsPanes |-> TRUE]
  /\ rs_paneSession = [p \in RsPanes |-> 0]
  /\ rs_frame = [p \in RsPanes |-> 0]
  /\ rs_raf = {}
  /\ rs_ids = 0
  /\ rs_last = NoCall
  /\ rs_notes = [p \in RsPanes |-> 0]

\* Math.max(2, runtime.terminal.cols), App.tsx:1466-1467
FloorDim(n) == Max(2, n)

\* resizePaneTerminal(p) when fit() left the terminal at tcols x trows: the
\* resize call it sends, or last (no call).  `bound` is a ghost: the pane's
\* session when the call is issued.
RsResizePaneTerminal(last, p, tcols, trows) ==
  IF ~rs_runtime'[p] THEN last
  ELSE IF rs_paneSession'[p] = 0 THEN last
  ELSE [kind |-> "call", via |-> "app", pane |-> p, sid |-> rs_paneSession'[p],
        bound |-> rs_paneSession'[p], cols |-> FloorDim(tcols), rows |-> FloorDim(trows)]

\* window.cancelAnimationFrame(runtime.resizeFrame) when it is not null
CancelFrameNever(raf, p, id) == raf
CancelFrame(raf, p, id) == raf \ {[pane |-> p, id |-> id]}

\* the callback of the pane's ResizeObserver, App.tsx:1618-1626
ResizeObserved(p) ==
  /\ rs_runtime[p]
  /\ rs_ids < MaxFrames
  /\ rs_ids' = rs_ids + 1
  /\ rs_raf' = CancelFrame(rs_raf, p, rs_frame[p]) \cup {[pane |-> p, id |-> rs_ids + 1]}
  /\ rs_frame' = [rs_frame EXCEPT ![p] = rs_ids + 1]
  /\ rs_notes' = [rs_notes EXCEPT ![p] = Min(@ + 1, MaxFrames)]
  /\ UNCHANGED <<rs_runtime, rs_paneSession, rs_last>>
  /\ UNCHANGED <<iwVars, bkVars, mxVars, ctlVars, obsVars, evVars, rsFrame>>

\* the browser runs the animation frame callback f, App.tsx:1622-1625
FrameRuns(f) ==
  /\ f \in rs_raf
  /\ rs_raf' = rs_raf \ {f}
  /\ rs_frame' = [rs_frame EXCEPT ![f.pane] = IF @ = f.id THEN 0 ELSE @]
  /\ rs_notes' = [rs_notes EXCEPT ![f.pane] = 0]
  /\ UNCHANGED <<rs_runtime, rs_paneSession, rs_ids>>
  /\ \E tcols \in RsDims, trows \in RsDims :
       rs_last' = RsResizePaneTerminal(rs_last, f.pane, tcols, trows)
  /\ UNCHANGED <<iwVars, bkVars, mxVars, ctlVars, obsVars, evVars, rsFrame>>

\* the .then of ensurePaneSession, App.tsx:1505-1514
RsBind(p, s) ==
  /\ rs_paneSession[p] # s
  /\ rs_paneSession' = [rs_paneSession EXCEPT ![p] = s]
  /\ UNCHANGED <<rs_runtime, rs_frame, rs_raf, rs_ids, rs_notes>>
  /\ \E tcols \in RsDims, trows \in RsDims :
       rs_last' = RsResizePaneTerminal(rs_last, p, tcols, trows)
  /\ UNCHANGED <<iwVars, bkVars, mxVars, ctlVars, obsVars, evVars, rsFrame>>

\* the reconciliation effect for a pane that has its runtime, App.tsx:1656-1658
RsReconcile(p) ==
  /\ rs_runtime[p]
  /\ UNCHANGED <<rs_runtime, rs_paneSession, rs_frame, rs_raf, rs_ids, rs_notes>>
  /\ \E tcols \in RsDims, trows \in RsDims :
       rs_last' = RsResizePaneTerminal(rs_last, p, tcols, trows)
  /\ UNCHANGED <<iwVars, bkVars, mxVars, ctlVars, obsVars, evVars, rsFrame>>

\* disposePaneRuntime, App.tsx:1538-1552: the observer is disconnected, the
\* pending frame is cancelled, the runtime and the pane's session are forgotten
RsDispose(p) ==
  /\ rs_runtime[p]
  /\ rs_runtime' = [rs_runtime EXCEPT ![p] = FALSE]
  /\ rs_raf' = CancelFrame(rs_raf, p, rs_frame[p])
  /\ rs_frame' = [rs_frame EXCEPT ![p] = 0]
  /\ rs_notes' = [rs_notes EXCEPT ![p] = 0]
  /\ rs_paneSession' = [rs_paneSession EXCEPT ![p] = 0]
  /\ UNCHANGED <<rs_ids, rs_last>>
  /\ UNCHANGED <<iwVars, bkVars, mxVars, ctlVars, obsVars, evVars, rsFrame>>

\* createPaneRuntime, App.tsx:1613-1634: a new runtime, with no frame pending
RsMount(p) ==
  /\ ~rs_runtime[p]
  /\ rs_runtime' = [rs_runtime EXCEPT ![p] = TRUE]
  /\ UNCHANGED <<rs_paneSession, rs_frame, rs_raf, rs_ids, rs_notes>>
  /\ \E tcols \in RsDims, trows \in RsDims :
       rs_last' = RsResizePaneTerminal(rs_last, p, tcols, trows)
  /\ UNCHANGED <<iwVars, bkVars, mxVars, ctlVars, obsVars, evVars, rsFrame>>

\* Number(cols || 1), part_000:206-207
TauriDim(n) == IF n = 0 THEN 1 ELSE n

\* tauriAPI.terminal.resize(id, cols, rows), part_000:201-210; id 0 stands for
\* a value that is not a non-empty string
TauriResize(id, cols, rows) ==
  /\ rs_last' = IF id = 0 THEN rs_last
                ELSE [kind |-> "call", via |-> "tauri", pane |-> 0, sid |-> id,
                      bound |-> id, cols |-> TauriDim(cols), rows |-> TauriDim(rows)]
  /\ UNCHANGED <<rs_runtime, rs_paneSession, rs_frame, rs_raf, rs_ids, rs_notes>>
  /\ UNCHANGED <<iwVars, bkVars, mxVars, ctlVars, obsVars, evVars, rsFrame>>

RsNext ==
  \/ \E p \in RsPanes : ResizeObserved(p)
  \/ \E f \in rs_raf : FrameRuns(f)
  \/ \E p \in RsPanes, s \in RsSessions : RsBind(p, s)
  \/ \E p \in RsPanes : RsReconcile(p)
  \/ \E p \in RsPanes : RsDispose(p)
  \/ \E p \in RsPanes : RsMount(p)
  \/ \E id \in 0 .. NResizeSessions, cols \in RsDims, rows \in RsDims : TauriResize(id, cols, rows)

(***************************************************************************)
(* tauriAPI.terminal.create (part_000:172-191) behind                      *)
(* ensureTerminalEventListeners (part_000:126-148).  The backend answers a *)
(* listen call by registering the handler or with an error, and a          *)
(* terminal_create call with a new session, which may emit output at once. *)
(***************************************************************************)
NCreateCalls == 3

CgCalls == 1 .. NCreateCalls
CgKinds == {"output", "exit"}
NotSent == {"-"}

CgInit ==
  /\ cg_initialized = FALSE
  /\ cg_listening = {}
  /\ cg_pc = [c \in CgCalls |-> "idle"]
  /\ cg_sentWith = [c \in CgCalls |-> NotSent]
  /\ cg_lost = FALSE

\* create(cwd) up to its first suspension.  With the flag set,
\* ensureTerminalEventListeners returns at once and terminal_create is
\* invoked (part_000:127, 173-179); else the flag is set and the output
\* handler is asked for (part_000:128-131).
CgCreate(c) ==
  /\ cg_pc[c] = "idle"
  /\ IF cg_initialized
       THEN /\ cg_pc' = [cg_pc EXCEPT ![c] = "invoking"]
            /\ cg_sentWith' = [cg_sentWith EXCEPT ![c] = cg_listening]
            /\ UNCHANGED cg_initialized
       ELSE /\ cg_initialized' = TRUE
            /\ cg_pc' = [cg_pc EXCEPT ![c] = "listenOutput"]
            /\ UNCHANGED cg_sentWith
  /\ UNCHANGED <<cg_listening, cg_lost>>
  /\ UNCHANGED <<iwVars, bkVars, mxVars, ctlVars, obsVars, evVars, cgFrame>>

\* listen("terminal:output") settles, part_000:130-140: registered or not, the
\* exit handler is asked for next
CgListenOutputSettles(c, ok) ==
  /\ cg_pc[c] = "listenOutput"
  /\ cg_listening' = IF ok THEN cg_listening \cup {"output"} ELSE cg_listening
  /\ cg_pc' = [cg_pc EXCEPT ![c] = "listenExit"]
  /\ UNCHANGED <<cg_initialized, cg_sentWith, cg_lost>>
  /\ UNCHANGED <<iwVars, bkVars, mxVars, ctlVars, obsVars, evVars, cgFrame>>

\* listen("terminal:exit") settles, part_000:139-147, and create goes on to
\* invoke terminal_create, part_000:174-179
CgListenExitSettles(c, ok) ==
  /\ cg_pc[c] = "listenExit"
  /\ cg_listening' = IF ok THEN cg_listening \cup {"exit"} ELSE cg_listening
  /\ cg_pc' = [cg_pc EXCEPT ![c] = "invoking"]
  /\ cg_sentWith' = [cg_sentWith EXCEPT ![c] = cg_listening']
  /\ UNCHANGED <<cg_initialized, cg_lost>>
  /\ UNCHANGED <<iwVars, bkVars, mxVars, ctlVars, obsVars, evVars, cgFrame>>

\* the backend serves terminal_create: the session exists
CgBackendCreates(c) ==
  /\ cg_pc[c] = "invoking"
  /\ cg_pc' = [cg_pc EXCEPT ![c] = "created"]
  /\ UNCHANGED <<cg_initialized, cg_listening, cg_sentWith, cg_lost>>
  /\ UNCHANGED <<iwVars, bkVars, mxVars, ctlVars, obsVars, evVars, cgFrame>>

\* the session of call c emits output: the backend hands it to the handler
\* registered for output events, if there is one
CgOutput(c) ==
  /\ cg_pc[c] \in {"created", "returned"}
  /\ cg_lost' = (cg_lost \/ "output" \notin cg_listening)
  /\ UNCHANGED <<cg_initialized, cg_listening, cg_pc, cg_sentWith>>
  /\ UNCHANGED <<iwVars, bkVars, mxVars, ctlVars, obsVars, evVars, cgFrame>>

\* the response of terminal_create arrives, part_000:180-190
CgCreateReturns(c) ==
  /\ cg_pc[c] = "created"
  /\ cg_pc' = [cg_pc EXCEPT ![c] = "returned"]
  /\ UNCHANGED <<cg_initialized, cg_listening, cg_sentWith, cg_lost>>
  /\ UNCHANGED <<iwVars, bkVars, mxVars, ctlVars, obsVars, evVars, cgFrame>>

CgNext ==
  \/ \E c \in CgCalls : CgCreate(c)
  \/ \E c \in CgCalls, ok \in BOOLEAN : CgListenOutputSettles(c, ok)
  \/ \E c \in CgCalls, ok \in BOOLEAN : CgListenExitSettles(c, ok)
  \/ \E c \in CgCalls : CgBackendCreates(c)
  \/ \E c \in CgCalls : CgOutput(c)
  \/ \E c \in CgCalls : CgCreateReturns(c)

(***************************************************************************)
(* subscribe(eventName, listener) of the preload bridge (part_004:33-58).  *)
(* The backend registers the handler of a listen call when it serves the   *)
(* call; the response, which carries the function that removes the         *)
(* handler, reaches the .then later.  An event the backend emits in        *)
(* between is delivered to the handler.                                    *)
(***************************************************************************)
MaxSubs == 2
MaxInvocations == 2

\* A subscribe call.  reg: the backend's side of the listen call,
\* "requested" | "registered" | "rejected" | "removed".  settled: the .then
\* or the .catch has run.  unsubscribed, unlisten: the two locals of the
\* call (unlisten: it is not null).  calls: invocations of the listener.
\* late (ghost): the listener was invoked after Unsubscribe had been called.
SbNew == [reg |-> "requested", settled |-> FALSE, unsubscribed |-> FALSE,
          unlisten |-> FALSE, calls |-> 0, late |-> FALSE]

SbInit == sb_subs = <<>>

\* subscribe(eventName, listener), part_004:33-39
SbSubscribe ==
  /\ Len(sb_subs) < MaxSubs
  /\ sb_subs' = Append(sb_subs, SbNew)
  /\ UNCHANGED <<iwVars, bkVars, mxVars, ctlVars, obsVars, evVars, sbFrame>>

\* the backend serves listen call i: the handler is registered
SbBackendRegisters(i) ==
  /\ i \in 1 .. Len(sb_subs)
  /\ sb_subs[i].reg = "requested"
  /\ sb_subs' = [sb_subs EXCEPT ![i].reg = "registered"]
  /\ UNCHANGED <<iwVars, bkVars, mxVars, ctlVars, obsVars, evVars, sbFrame>>

\* the backend rejects listen call i
SbBackendRejects(i) ==
  /\ i \in 1 .. Len(sb_subs)
  /\ sb_subs[i].reg = "requested"
  /\ sb_subs' = [sb_subs EXCEPT ![i].reg = "rejected"]
  /\ UNCHANGED <<iwVars, bkVars, mxVars, ctlVars, obsVars, evVars, sbFrame>>

\* the .then of listen call i, part_004:40-46
SbListenResolved(i) ==
  /\ i \in 1 .. Len(sb_subs)
  /\ ~sb_subs[i].settled
  /\ sb_subs[i].reg = "registered"
  /\ sb_subs' = [sb_subs EXCEPT ![i] =
                   IF @.unsubscribed
                     THEN [@ EXCEPT !.settled = TRUE, !.reg = "removed"]
                     ELSE [@ EXCEPT !.settled = TRUE, !.unlisten = TRUE]]
  /\ UNCHANGED <<iwVars, bkVars, mxVars, ctlVars, obsVars, evVars, sbFrame>>

\* the .catch of listen call i, part_004:47-49
SbListenRejected(i) ==
  /\ i \in 1 .. Len(sb_subs)
  /\ ~sb_subs[i].settled
  /\ sb_subs[i].reg = "rejected"
  /\ sb_subs' = [sb_subs EXCEPT ![i].settled = TRUE]
  /\ UNCHANGED <<iwVars, bkVars, mxVars, ctlVars, obsVars, evVars, sbFrame>>

\* the Unsubscribe function of call i, part_004:51-57
SbUnsubscribe(i) ==
  /\ i \in 1 .. Len(sb_subs)
  /\ sb_subs' = [sb_subs EXCEPT ![i] =
                   IF @.unlisten
                     THEN [@ EXCEPT !.unsubscribed = TRUE, !.unlisten = FALSE, !.reg = "removed"]
                     ELSE [@ EXCEPT !.unsubscribed = TRUE]]
  /\ UNCHANGED <<iwVars, bkVars, mxVars, ctlVars, obsVars, evVars, sbFrame>>

\* The handler given to listen, part_004:37-39, run for one event.
SbHandler(sub) ==
  [sub EXCEPT !.calls = Min(@ + 1, MaxInvocations),
              !.late = @ \/ sub.unsubscribed]

\* the backend emits an event: every registered handler runs
SbBackendEvent ==
  /\ \E i \in 1 .. Len(sb_subs) :
        sb_subs[i].reg = "registered" /\ sb_subs[i].calls < MaxInvocations
  /\ sb_subs' = [i \in 1 .. Len(sb_subs) |->
                   IF sb_subs[i].reg = "registered" THEN SbHandler(sb_subs[i])
                   ELSE sb_subs[i]]
  /\ UNCHANGED <<iwVars, bkVars, mxVars, ctlVars, obsVars, evVars, sbFrame>>

SbNext ==
  \/ SbSubscribe
  \/ \E i \in 1 .. MaxSubs : SbBackendRegisters(i)
  \/ \E i \in 1 .. MaxSubs : SbBackendRejects(i)
  \/ \E i \in 1 .. MaxSubs : SbListenResolved(i)
  \/ \E i \in 1 .. MaxSubs : SbListenRejected(i)
  \/ \E i \in 1 .. MaxSubs : SbUnsubscribe(i)
  \/ SbBackendEvent

(***************************************************************************)
(* The terminal event subscription effect of App.tsx (1678-1731) over      *)
(* onTerminalOutput / onTerminalExit (part_001:536-554) and the event      *)
(* setup above.  A run of the effect calls subscribe(), which adds its     *)
(* output listener at once, awaits ensureTerminalEvents, then adds its     *)
(* exit listener and awaits again; the cleanup of a run can only remove    *)
(* the listeners whose unlisten function subscribe() has been given by     *)
(* then, and subscribe() removes the others when it ends.                  *)
(* The continuation of an await runs in a microtask, before any event or   *)
(* effect: MicrotasksPending disables those until it has run.              *)
(***************************************************************************)
MaxEffects == 2
MaxOutputEvents == 1

\* A run of the effect.  pc: "output" (awaiting onTerminalOutput), "exit"
\* (awaiting onTerminalExit) or "done".  disposed, outU, exitU: the locals
\* disposed, outputUnlisten and exitUnlisten (it is not null).  await: the
\* setup whose promise the run awaits.
FxEffect(pc, await) ==
  [pc |-> pc, disposed |-> FALSE, outU |-> pc = "done", exitU |-> pc = "done", await |-> await]

NoEvent == [kind |-> "none", handlers |-> 0, writes |-> 0]

FxInit ==
  /\ fx_effects = <<>>
  /\ fx_outL = {}
  /\ fx_exitL = {}
  /\ fx_session = "none"
  /\ fx_last = NoEvent
  /\ fx_exits = 0
  /\ fx_events = 0

\* The promise run e awaits has settled and its continuation has not run yet.
Runnable(e) == fx_effects[e].pc \in {"output", "exit"} /\ fx_effects[e].await # ev_promise
MicrotasksPending == \E e \in 1 .. Len(fx_effects) : Runnable(e)

\* The end of subscribe(), App.tsx:1718-1721, and what is left of run e's
\* listeners in a listener set.
AfterSubscribe(set, e, disposed) == IF disposed THEN set \ {e} ELSE set

\* The cleanup of the latest run, App.tsx:1726-1730, applied to the runs and to
\* a listener set: only a listener whose unlisten function has been assigned
\* is removed.
CleanedUp(effects) ==
  IF effects = <<>> THEN effects ELSE [effects EXCEPT ![Len(effects)].disposed = TRUE]
OutputCleanedUp(effects, set) ==
  IF effects # <<>> /\ effects[Len(effects)].outU THEN set \ {Len(effects)} ELSE set
ExitCleanedUp(effects, set) ==
  IF effects # <<>> /\ effects[Len(effects)].exitU THEN set \ {Len(effects)} ELSE set

\* The effect runs, App.tsx:1678-1724, at mount or when its dependencies have
\* changed: the cleanup of the previous run and, in the same commit,
\* subscribe() up to its first suspension that lasts.
EffectRuns ==
  /\ ~MicrotasksPending
  /\ Len(fx_effects) < MaxEffects
  /\ LET e == Len(fx_effects) + 1
         before == CleanedUp(fx_effects)
     IN  /\ fx_outL' = OutputCleanedUp(fx_effects, fx_outL) \cup {e}
         /\ IF ev_ready
              THEN /\ fx_effects' = Append(before, FxEffect("done", 0))
                   /\ fx_exitL' = ExitCleanedUp(fx_effects, fx_exitL) \cup {e}
                   /\ UNCHANGED evVars
              ELSE IF ev_promise # 0
                THEN /\ fx_effects' = Append(before, FxEffect("output", ev_promise))
                     /\ fx_exitL' = ExitCleanedUp(fx_effects, fx_exitL)
                     /\ UNCHANGED evVars
              ELSE /\ StartSetup
                   /\ fx_effects' = Append(before, FxEffect("output", ev_promise'))
                   /\ fx_exitL' = ExitCleanedUp(fx_effects, fx_exitL)
  /\ UNCHANGED <<fx_session, fx_last, fx_exits, fx_events>>
  /\ UNCHANGED <<iwVars, bkVars, mxVars, ctlVars, obsVars, fxFrame>>

\* subscribe() of run e goes on after onTerminalOutput has returned,
\* App.tsx:1684-1694: the output unlisten is kept, the exit listener is added
\* and ensureTerminalEvents is called again.
ContinueAfterOutput(e) ==
  /\ fx_effects[e].pc = "output"
  /\ IF ev_ready
       THEN /\ fx_effects' = [fx_effects EXCEPT ![e].pc = "done", ![e].outU = TRUE,
                                                ![e].exitU = TRUE]
            /\ fx_outL' = AfterSubscribe(fx_outL, e, fx_effects[e].disposed)
            /\ fx_exitL' = AfterSubscribe(fx_exitL \cup {e}, e, fx_effects[e].disposed)
            /\ UNCHANGED evVars
       ELSE /\ fx_exitL' = fx_exitL \cup {e}
            /\ UNCHANGED fx_outL
            /\ IF ev_promise # 0
                 THEN /\ fx_effects' = [fx_effects EXCEPT ![e].pc = "exit", ![e].outU = TRUE,
                                                          ![e].await = ev_promise]
                      /\ UNCHANGED evVars
                 ELSE /\ StartSetup
                      /\ fx_effects' = [fx_effects EXCEPT ![e].pc = "exit", ![e].outU = TRUE,
                                                          ![e].await = ev_promise']

\* subscribe() of run e goes on after onTerminalExit has returned,
\* App.tsx:1716-1722.
ContinueAfterExit(e) ==
  /\ fx_effects[e].pc = "exit"
  /\ fx_effects' = [fx_effects EXCEPT ![e].pc = "done", ![e].exitU = TRUE]
  /\ fx_outL' = AfterSubscribe(fx_outL, e, fx_effects[e].disposed)
  /\ fx_exitL' = AfterSubscribe(fx_exitL, e, fx_effects[e].disposed)
  /\ UNCHANGED evVars

\* The microtask of the run that has waited longest.
SubscribeContinues(e) ==
  /\ e \in 1 .. Len(fx_effects)
  /\ Runnable(e)
  /\ \A d \in 1 .. Len(fx_effects) : Runnable(d) => e <= d
  /\ (ContinueAfterOutput(e) \/ ContinueAfterExit(e))
  /\ UNCHANGED <<fx_session, fx_last, fx_exits, fx_events>>
  /\ UNCHANGED <<iwVars, bkVars, mxVars, ctlVars, obsVars, fxFrame>>

\* The effect has run: it runs in the commit that mounts the component, before
\* any promise settles and before any event is delivered.
FxMounted == fx_effects # <<>>

\* A createTerminal call has got past its `await ensureTerminalEvents()`
\* (part_001:437): a setup has settled, or the streams were ready.
CreateMayProceed ==
  \/ ev_ready
  \/ ev_setups >= 2
  \/ ev_setups = 1 /\ ev_promise = 0

\* A session is created and the .then of ensurePaneSession binds it to a
\* mounted pane; the effect has run at mount, in the commit that created the
\* pane's runtime.
FxSessionBound ==
  /\ ~MicrotasksPending
  /\ FxMounted
  /\ fx_session = "none"
  /\ CreateMayProceed
  /\ fx_session' = "bound"
  /\ UNCHANGED <<fx_effects, fx_outL, fx_exitL, fx_last, fx_exits, fx_events>>
  /\ UNCHANGED <<iwVars, bkVars, mxVars, ctlVars, obsVars, evVars, fxFrame>>

\* The backend emits an output event of the bound session under the name
\* <<"output", a>>.  Every handler registered for the name runs
\* appendTerminalOutput (part_001:182-193), which calls every listener of the
\* set; each listener finds the pane and writes (App.tsx:1684-1692).
FxOutputEvent(a) ==
  /\ ~MicrotasksPending
  /\ fx_session = "bound"
  /\ fx_events < MaxOutputEvents
  /\ ev_handlers[<<"output", a>>] >= 1
  /\ fx_events' = fx_events + 1
  /\ fx_last' = [kind |-> "output", handlers |-> ev_handlers[<<"output", a>>],
                 writes |-> ev_handlers[<<"output", a>>] * Cardinality(fx_outL)]
  /\ UNCHANGED <<fx_effects, fx_outL, fx_exitL, fx_session, fx_exits>>
  /\ UNCHANGED <<iwVars, bkVars, mxVars, ctlVars, obsVars, evVars, fxFrame>>

\* The exit listener, App.tsx:1694-1716, called `invocations` times for one
\* exit event: the first call finds the session in sessionPaneMapRef, removes
\* it and handles the exit; the others find nothing and return.
ExitsHandled(invocations) == IF invocations >= 1 THEN 1 ELSE 0

\* The backend emits the exit event of the bound session under the name
\* <<"exit", a>>: handleTerminalExit (part_001:195-204) per handler.
FxExitEvent(a) ==
  /\ ~MicrotasksPending
  /\ fx_session = "bound"
  /\ ev_handlers[<<"exit", a>>] >= 1
  /\ fx_session' = "exited"
  /\ fx_exits' = fx_exits + ExitsHandled(ev_handlers[<<"exit", a>>] * Cardinality(fx_exitL))
  /\ fx_last' = [kind |-> "exit", handlers |-> ev_handlers[<<"exit", a>>],
                 writes |-> ExitsHandled(ev_handlers[<<"exit", a>>] * Cardinality(fx_exitL))]
  /\ UNCHANGED <<fx_effects, fx_outL, fx_exitL, fx_events>>
  /\ UNCHANGED <<iwVars, bkVars, mxVars, ctlVars, obsVars, evVars, fxFrame>>

\* The steps of the event setup, once the component is mounted.
FxEnsureStartsSetup == FxMounted /\ EnsureStartsSetup
FxListenResolves(i) == FxMounted /\ ListenResolves(i)
FxListenRejects(i) == FxMounted /\ ListenRejects(i)
FxOutputStageDone == FxMounted /\ OutputStageDone
FxExitStageDone == FxMounted /\ ExitStageDone
FxStageFails == FxMounted /\ StageFails

FxNext ==
  \/ EffectRuns
  \/ \E e \in 1 .. MaxEffects : SubscribeContinues(e)
  \/ FxEnsureStartsSetup
  \/ \E i \in 1 .. 2 * NAliases * MaxSetups : FxListenResolves(i)
  \/ \E i \in 1 .. 2 * NAliases * MaxSetups : FxListenRejects(i)
  \/ FxOutputStageDone
  \/ FxExitStageDone
  \/ FxStageFails
  \/ FxSessionBound
  \/ \E a \in 1 .. NAliases : FxOutputEvent(a)
  \/ \E a \in 1 .. NAliases : FxExitEvent(a)

ExtInit == KlInit /\ InInit /\ RsInit /\ CgInit /\ SbInit /\ FxInit

(***************************************************************************)
(* Specifications                                                          *)
(***************************************************************************)
InitInvoke == IwInit /\ BkInit /\ MxInit /\ CtlInit /\ EvInit /\ ExtInit
NextInvoke == InvokeAttemptOk \/ InvokeAttemptFails
SpecInvoke == InitInvoke /\ [][NextInvoke]_vars

InitBacklog == BkInit /\ IwInit /\ iw_commands = 1 /\ iw_variants = 1 /\ MxInit /\ CtlInit /\ EvInit /\ ExtInit
NextBacklog == BkEmitMux \/ BkAppendBridge \/ BkDeleteMux \/ BkResetBridge \/ BkDeleteBridge
SpecBacklog == InitBacklog /\ [][NextBacklog]_vars

InitMux == MxInit /\ BkInit /\ IwInit /\ iw_commands = 1 /\ iw_variants = 1 /\ CtlInit /\ EvInit /\ ExtInit
SpecMuxData == InitMux /\ [][MxDataNext]_vars
SpecMuxExit == InitMux /\ [][MxExitNext]_vars
SpecMuxOrder == InitMux /\ [][MxOrderNext]_vars
SpecMuxThrow == InitMux /\ [][MxThrowNext]_vars
SpecMuxTeardown == InitMux /\ [][MxTeardownNext]_vars
SpecMuxHandles == InitMux /\ [][MxHandleNext]_vars
SpecEvents == InitMux /\ [][EvNext]_vars
SpecKill == InitMux /\ [][KlNext]_vars

SpecInput == InitMux /\ [][InNext]_vars
SpecResize == InitMux /\ [][RsNext]_vars
SpecCreateGate == InitMux /\ [][CgNext]_vars
SpecSubscribe == InitMux /\ [][SbNext]_vars
SpecListeners == InitMux /\ [][FxNext]_vars
Init == CtlInit /\ IwInit /\ iw_commands = 1 /\ iw_variants = 1 /\ BkInit /\ MxInit /\ EvInit /\ ExtInit
Next == CtlNext
Spec == Init /\ [][Next]_vars
\* The event loop runs the callbacks of a promise once its response has arrived.
FairSpec == Spec /\ \A c \in 1 .. MaxCalls : WF_vars(CreateResolved(c))

(***************************************************************************)
(* Claims                                                                  *)
(***************************************************************************)

\* The k-th combination in name-major, shape-minor order.
IwNth(k) == [command |-> ((k - 1) \div iw_variants) + 1, args |-> ((k - 1) % iw_variants) + 1]

\* C7 (alias fallback): the backend calls of invokeWithFallbacks are the
\* combinations in name-major, shape-minor order starting from (canonical name,
\* wrapped shape); every call but the last one failed; a call that succeeded is
\* the last call, and the promise resolves with that call's result.
C7_AliasFallback ==
  /\ \A k \in 1..Len(iw_log) :
       /\ iw_log[k].command = IwNth(k).command
       /\ iw_log[k].args = IwNth(k).args
       /\ iw_log[k].ok => k = Len(iw_log)
  /\ (iw_log # <<>> /\ iw_log[Len(iw_log)].ok) =>
       /\ iw_pc = "done"
       /\ iw_result = [kind |-> "ok",
                       value |-> IwValue(iw_log[Len(iw_log)].command, iw_log[Len(iw_log)].args)]
  /\ (iw_pc = "done" /\ iw_result.kind = "ok") => (iw_log # <<>> /\ iw_log[Len(iw_log)].ok)

\* C7 witness: every canonical-name attempt failed and the first alias succeeded.
C7_Witness ==
  /\ iw_pc = "done"
  /\ iw_variants = 2
  /\ Len(iw_log) = 3
  /\ iw_result = [kind |-> "ok", value |-> IwValue(2, 1)]

\* C8 (resolution failure): when the promise rejects, every combination was
\* called exactly once (|names| x |shapes| calls, all failed, no repeats) and the
\* rejection carries the error of the last combination attempted.
C8_AllFailLastError ==
  (iw_pc = "done" /\ iw_result.kind = "err") =>
    /\ Len(iw_log) = iw_commands * iw_variants
    /\ \A k \in 1..Len(iw_log) : ~iw_log[k].ok
    /\ \A j, k \in 1..Len(iw_log) :
         j # k => <<iw_log[j].command, iw_log[j].args>> # <<iw_log[k].command, iw_log[k].args>>
    /\ iw_log[Len(iw_log)].command = iw_commands
    /\ iw_log[Len(iw_log)].args = iw_variants
    /\ iw_result.value = iw_log[Len(iw_log)].error

\* C8 witness: a rejection after two names times two shapes.
C8_Witness ==
  /\ iw_pc = "done"
  /\ iw_result.kind = "err"
  /\ iw_commands = 2
  /\ iw_variants = 2
  /\ Len(iw_log) = 4
  /\ iw_log[1].error # iw_log[4].error

\* C6 (backlog cap): each backlog is at most its cap long and holds exactly the
\* last min(cap, total) characters of the chunks buffered since it was cleared,
\* for cap = 1048576 in the multiplexer and cap = 8000 in the renderer bridge.
C6_BacklogCap ==
  /\ StrLen(bk_mux.str) <= TERMINAL_BUFFER_LIMIT
  /\ bk_mux.str = LastChars(bk_muxHist, Min(TERMINAL_BUFFER_LIMIT, StrLen(bk_muxHist)))
  /\ StrLen(bk_bridge.str) <= BRIDGE_BUFFER_LIMIT
  /\ bk_bridge.str = LastChars(bk_bridgeHist, Min(BRIDGE_BUFFER_LIMIT, StrLen(bk_bridgeHist)))

\* C6 witness: both backlogs overflowed, and each cut a chunk in the middle.
C6_Witness ==
  /\ StrLen(bk_muxHist) > TERMINAL_BUFFER_LIMIT
  /\ StrLen(bk_bridgeHist) > BRIDGE_BUFFER_LIMIT
  /\ StrLen(bk_mux.str) = TERMINAL_BUFFER_LIMIT
  /\ StrLen(bk_bridge.str) = BRIDGE_BUFFER_LIMIT
  /\ Len(bk_mux.str) >= 2 /\ bk_mux.str[1].lo > 1
  /\ Len(bk_bridge.str) >= 2 /\ bk_bridge.str[1].lo > 1

\* C4 (flush-once): a per-session output listener attached to a session with a
\* non-empty backlog receives, during the attach call, the backlog once -- the
\* concatenation of the chunks buffered since the backlog was cleared (its
\* newest TERMINAL_BUFFER_LIMIT characters, per C6) -- and the backlog entry is
\* gone afterwards; with an empty backlog it receives nothing.  No chunk is
\* flushed twice, none is both flushed and delivered live, a flushed chunk is in
\* no backlog, and while a session has a per-session output listener its
\* backlog holds no data.
C4_FlushOnce ==
  /\ mx_last.kind = "attachData" =>
       /\ mx_last.before = LastChars(mx_last.hist, Min(TERMINAL_BUFFER_LIMIT, StrLen(mx_last.hist)))
       /\ StrLen(mx_last.hist) <= TERMINAL_BUFFER_LIMIT => mx_last.before = mx_last.hist
       /\ IF mx_last.before # <<>>
            THEN /\ mx_last.delivered = <<mx_last.before>>
                 /\ mx_last.after = <<>>
                 /\ mx_data[mx_last.sid] = Absent
            ELSE mx_last.delivered = <<>>
  /\ \A c \in MxChunks :
       /\ mx_flushCount[c] <= 1
       /\ ~(mx_flushCount[c] >= 1 /\ mx_liveCount[c] >= 1)
       /\ mx_flushCount[c] >= 1 => \A s \in MxSessions : c \notin ChunksOf(mx_data[s].str)
  /\ \A s \in MxSessions : mx_sessData[s] # {} => mx_data[s].str = <<>>

\* C4 witness: a listener attached after two chunks were buffered and got both.
C4_Witness ==
  /\ mx_last.kind = "attachData"
  /\ Len(mx_last.hist) = 2
  /\ mx_last.delivered = <<mx_last.hist>>
  /\ mx_sessData[mx_last.sid] = {mx_last.l}

\* C5 as stated (exit TTL): a per-session exit listener attached while the exit
\* was recorded less than EXIT_TTL_MS ago, and not yet delivered to an earlier
\* listener, receives the exit code; one attached after the window, or after
\* an earlier listener got the record, or with no record made, receives nothing.
C5_ExitTTL_AsStated ==
  mx_last.kind = "attachExit" =>
    /\ (mx_last.recAt >= 0 /\ mx_last.seen = 0 /\ mx_last.at < mx_last.recAt + EXIT_TTL_MS)
          => mx_last.delivered = <<mx_last.recCode>>
    /\ (mx_last.recAt < 0 \/ mx_last.seen > 0 \/ mx_last.at > mx_last.recAt + EXIT_TTL_MS)
          => mx_last.delivered = <<>>

\* C5 amended: as C5, provided destroy(S) was not called since the exit was
\* recorded; after destroy(S) a listener receives nothing.  The record is
\* delivered at most once.
C5_ExitTTL ==
  /\ mx_last.kind = "attachExit" =>
       /\ (/\ mx_last.recAt >= 0
           /\ mx_last.seen = 0
           /\ ~mx_last.destroyed
           /\ mx_last.at < mx_last.recAt + EXIT_TTL_MS) => mx_last.delivered = <<mx_last.recCode>>
       /\ (\/ mx_last.recAt < 0
           \/ mx_last.seen > 0
           \/ mx_last.destroyed
           \/ mx_last.at > mx_last.recAt + EXIT_TTL_MS) => mx_last.delivered = <<>>
  /\ \A s \in MxSessions : mx_exitGhost[s].seen <= 1

\* C5 witness: the exit was recorded, time passed, and a late listener got it.
C5_Witness ==
  /\ mx_last.kind = "attachExit"
  /\ mx_last.recAt >= 0
  /\ mx_last.at > mx_last.recAt
  /\ mx_last.delivered = <<mx_last.recCode>>
  /\ mx_last.recCode = 1

\* ---- pane runtime controller

\* C1 (as stated). Deduplication: among the ensurePaneSession calls for one
\* pane that start before the first of them settles, at most one issues a
\* createTerminal call, so all of them resolve to the same session id.  `a` is
\* a first call (none was open when it started) and `b` started while `a` was
\* still open.
C1_Dedup ==
  \A a \in 1 .. Len(ctl_calls) : \A b \in 1 .. Len(ctl_calls) :
     ~ ( /\ ctl_calls[a].overlap = {}
         /\ a \in ctl_calls[b].overlap
         /\ Issued(ctl_calls[a].st)
         /\ Issued(ctl_calls[b].st) )

\* The live sessions associated with pane p: created for it, not exited, and
\* no kill issued for them.
LiveSessionsOf(p) ==
  {s \in CtlSessions : /\ s <= Len(ctl_calls)
                       /\ ctl_calls[s].pane = p
                       /\ be_sessions[s] = "alive"
                       /\ s \notin be_killed}

\* C2 (as stated). At every moment a pane has at most one live session
\* associated with it.
C2_OneLiveSession == \A p \in Panes : Cardinality(LiveSessionsOf(p)) <= 1

\* C3 (as stated). Once the exit event of a session has been processed, the
\* session is a key of neither map, and no write or resize call is issued for
\* it afterwards.
C3_TeardownAfterExit ==
  /\ \A s \in ctl_exitSeen :
        /\ ctl_sessionPane[s] = 0
        /\ \A p \in Panes : ctl_paneSession[p] # s
  /\ ~ctl_stale

\* C9 (as stated). No event is silently dropped: a session that is bound to a
\* mounted pane has had every output event and its exit event delivered to the
\* pane, also those that arrived before the binding existed.
C9_NoEventDropped ==
  \A s \in CtlSessions :
     (ctl_sessionPane[s] # 0 /\ ctl_runtimes[ctl_sessionPane[s]] # 0)
        => (s \notin ctl_outLost /\ s \notin ctl_exitSeen)

\* The step in which the exit listener handles the exit of session s bound to pane p.
ExitHandled(s, p) ==
  /\ ctl_sessionPane[s] = p
  /\ s \notin ctl_exitSeen
  /\ s \in ctl_exitSeen'

\* The create call c was made or joined by an exit handler and the backend
\* has created its session.
RespawnCreated(c) ==
  /\ c <= Len(ctl_calls)
  /\ ctl_calls[c].respawn # 0
  /\ ctl_calls[c].st = "created"

RespawnBound(c) ==
  /\ c <= Len(ctl_calls)
  /\ ctl_paneSession[ctl_calls[c].pane] = c
  /\ c # ctl_calls[c].respawn

\* C10. Auto-respawn: the handler of the exit of a session bound to pane P
\* leaves a create call in flight for P when P is mounted, and starts none
\* when P is not mounted; when that create call succeeds, P becomes bound to
\* its session, which is not the one that exited.
C10_AutoRespawn ==
  /\ [][\A s \in CtlSessions : \A p \in Panes :
          ExitHandled(s, p) =>
            IF ctl_runtimes[p] # 0
              THEN /\ ctl_creating'[p] # 0
                   /\ Issued(ctl_calls'[ctl_creating'[p]].st)
                   /\ Unsettled(ctl_calls'[ctl_creating'[p]].st)
                   /\ ctl_calls'[ctl_creating'[p]].pane = p
                   /\ ctl_calls'[ctl_creating'[p]].respawn = s
              ELSE /\ ctl_calls' = ctl_calls
                   /\ ctl_creating' = ctl_creating]_vars
  /\ \A c \in 1 .. MaxCalls : RespawnCreated(c) ~> RespawnBound(c)

C10_Witness ==
  \E c \in 1 .. Len(ctl_calls) :
     /\ ctl_calls[c].respawn # 0
     /\ ctl_calls[c].st = "resolved"
     /\ ctl_paneSession[ctl_calls[c].pane] = c
     /\ ctl_runtimes[ctl_calls[c].pane] # 0

\* The most recent ensurePaneSession invocation recorded for pane p (0: none).
LatestCallOf(p) ==
  LET cs == {c \in 1 .. Len(ctl_calls) : ctl_calls[c].pane = p}
  IN  IF cs = {} THEN 0 ELSE CHOOSE c \in cs : \A d \in cs : d <= c

\* This step issues a createTerminal call for pane p.
IssuesCreateFor(p) ==
  \E c \in 1 .. Len(ctl_calls') :
     /\ ctl_calls'[c].pane = p
     /\ ctl_calls'[c].st = "invoking"
     /\ (c > Len(ctl_calls) \/ ctl_calls[c].st = "waiting")

\* The pane's latest create call failed, the pane kept its runtime, and nothing
\* has asked for a session since.
FailedAndIdle(p) ==
  /\ LatestCallOf(p) # 0
  /\ ctl_calls[LatestCallOf(p)].st = "rejected"
  /\ ctl_runtimes[p] # 0
  /\ ctl_runtimes[p] = ctl_hosts[p]

\* C11 (as stated, its no-retry part). Creation failure is not auto-retried:
\* the reconciliation pass that follows the failure of pane P's create call
\* issues no create call for P.
C11_NoAutoRetry ==
  [][ReconcileEffect => \A p \in Panes : ~(FailedAndIdle(p) /\ IssuesCreateFor(p))]_vars

\* ---- event multiplexer: what follows the exit of a session

IsSuffix(a, b) == StrLen(a) <= StrLen(b) /\ a = SliceLast(b, StrLen(a))

\* The chunks of session s of which listener l was given no character.
MissedChunks(s, l) == ChunksOf(mx_emitted[s]) \ ChunksOf(mx_recv[s][l])

C14_ListenerIsolation ==
  mx_last.kind \in {"data", "exit"} =>
    /\ ~mx_last.escaped
    /\ mx_last.global \cup mx_last.to = mx_last.reg
    /\ mx_last.kind = "data" =>
         /\ mx_last.buffered = (mx_last.reg \cap MxDataL = {})
         /\ mx_data[mx_last.sid].str =
              IF mx_last.buffered
                THEN MuxBuffer(Present(mx_last.before), mx_last.data).str
                ELSE mx_last.before
    /\ mx_last.kind = "exit" =>
         /\ mx_last.buffered = (mx_last.reg \cap MxExitL = {})
         /\ mx_exit[mx_last.sid] = IF mx_last.buffered THEN ExitRecord(mx_last.code) ELSE NoExit
         /\ mx_data[mx_last.sid] = Absent
         /\ mx_sessData[mx_last.sid] = {}
         /\ mx_sessExit[mx_last.sid] = {}

\* C14 witness: the global exit listener and the first per-session exit
\* listener threw; the second per-session exit listener was called all the
\* same, and the session was torn down.
C14_Witness ==
  /\ mx_last.kind = "exit"
  /\ mx_last.threw = MxGlobalExitL \cup {<<"e", 1>>}
  /\ mx_last.reg = MxGlobalExitL \cup MxExitL
  /\ <<"e", 2>> \in mx_last.to
  /\ mx_last.before # <<>>
  /\ mx_data[mx_last.sid] = Absent


\* ---- event multiplexer: unsubscribe closures

Registries == <<mx_globalData, mx_globalExit, mx_sessData, mx_sessExit>>

\* C15 (as stated, its second half). A call of an unsubscribe closure that has
\* been called before leaves every listener registry unchanged, whatever
\* subscriptions were made in between.
C15_IdempotentUnsubscribe ==
  [][\A h \in 1 .. Len(mx_handles) :
       (mx_handles[h].calls >= 1 /\ mx_handles'[h].calls = mx_handles[h].calls + 1)
          => UNCHANGED Registries]_vars


\* ---- renderer bridge: setup of the backend event streams

\* C16 (as stated). Exactly-once subscription: whatever calls of
\* ensureTerminalEvents were made, overlapping a setup or following one that
\* failed part-way, the backend holds at most one handler per event name.
C16_OneHandlerPerEvent ==
  \A n \in EvNames : ev_handlers[n] <= 1


\* ---- pane runtime controller: a create call that outlives its pane

\* This step runs the .then of create call c.
ResolvesNow(c) ==
  /\ c \in 1 .. Len(ctl_calls)
  /\ ctl_calls[c].st = "created"
  /\ ctl_calls'[c].st = "resolved"

\* C17 (as stated, its mapping part). A create call is issued only for a pane
\* that has its runtime, and only disposePaneRuntime removes a runtime; so a
\* call that resolves while its pane has no runtime was pending when the pane
\* was disposed.  Its result is ignored: the session it created is registered
\* neither as the pane's session nor as a session of the pane.
C17_StaleResultIgnored ==
  [][\A c \in 1 .. MaxCalls :
       (ResolvesNow(c) /\ ctl_runtimes[ctl_calls[c].pane] = 0)
          => /\ ctl_paneSession'[ctl_calls[c].pane] # c
             /\ ctl_sessionPane'[c] = 0]_vars


\* ---- pane runtime controller: Bound -> Unbound -> Creating -> Bound

\* C18 (as stated). The session bound to a pane never changes in one step from
\* one session id to a different session id.
C18_NoBoundToBound ==
  [][\A p \in Panes :
       (ctl_paneSession[p] # 0 /\ ctl_paneSession'[p] # 0)
          => ctl_paneSession'[p] = ctl_paneSession[p]]_vars


\* ---- event multiplexer: listeners and backlog exclude each other

\* C19. For every session, a non-empty set of per-session output listeners and
\* a non-empty backlog never coexist.  An output event is appended to the
\* backlog (it is then the end of the backlog) only if the session has no
\* per-session output listener at that moment; otherwise it is delivered live
\* to each of them and is in no backlog.
C19_ListenersExcludeBacklog ==
  /\ \A s \in MxSessions : ~(mx_sessData[s] # {} /\ mx_data[s].str # <<>>)
  /\ mx_last.kind = "data" =>
       /\ mx_last.to = mx_sessData[mx_last.sid]
       /\ mx_last.buffered <=> mx_sessData[mx_last.sid] = {}
       /\ mx_last.buffered =>
            /\ mx_data[mx_last.sid].has
            /\ IsSuffix(mx_last.data, mx_data[mx_last.sid].str)
       /\ ~mx_last.buffered =>
            \A c \in ChunksOf(mx_last.data) :
               /\ mx_liveCount[c] = 1
               /\ \A s \in MxSessions : c \notin ChunksOf(mx_data[s].str)

\* C19 witness: a session whose backlog was flushed to a listener is given a
\* further chunk live, while the other session, with no listener, holds a
\* backlog.
C19_Witness ==
  /\ mx_last.kind = "data"
  /\ mx_last.to # {}
  /\ mx_last.data # <<>>
  /\ \E c \in MxChunks : mx_flushCount[c] = 1
  /\ \E s \in MxSessions : mx_sessData[s] = {} /\ mx_data[s].str # <<>>


\* ---- event multiplexer: what the exit handler removes and what it leaves

\* This step processes the exit event of session s.
ExitProcessed(s) == s \notin mx_exited /\ s \in mx_exited'

\* C20. When the exit event of session s has been processed, whether or not a
\* global or per-session exit listener existed or threw, the backlog of s, its
\* per-session output and exit listener sets and its remembered working
\* directory are absent, and the backlog, the listener sets, the delayed exit
\* record and the working directory of every other session are what they were.
C20_ExitTeardownFrame ==
  [][\A s \in MxSessions : ExitProcessed(s) =>
       /\ mx_data'[s] = Absent
       /\ mx_sessData'[s] = {}
       /\ mx_sessExit'[s] = {}
       /\ mx_cwd'[s] = NoCwd
       /\ \A o \in MxSessions \ {s} :
            /\ mx_data'[o] = mx_data[o]
            /\ mx_sessData'[o] = mx_sessData[o]
            /\ mx_sessExit'[o] = mx_sessExit[o]
            /\ mx_exit'[o] = mx_exit[o]
            /\ mx_cwd'[o] = mx_cwd[o]]_vars

\* C20 witness: the exit of a session that had a backlog and exit listeners,
\* one of which threw, has just been processed; the session's working
\* directory had been stored; the other session still has its backlog, its
\* exit listener and its working directory.
C20_Witness ==
  /\ mx_last.kind = "exit"
  /\ mx_last.before # <<>>
  /\ mx_last.threw \cap MxExitL # {}
  /\ mx_last.sid \in mx_created
  /\ mx_cwd[mx_last.sid] = NoCwd
  /\ \E o \in MxSessions \ {mx_last.sid} :
       /\ mx_data[o].str # <<>>
       /\ mx_sessExit[o] # {}
       /\ mx_cwd[o] # NoCwd


\* ---- pane runtime controller: a create call that fails

\* This step runs the .catch and the .finally of create call c.
RejectsNow(c) ==
  /\ c \in 1 .. Len(ctl_calls)
  /\ ctl_calls[c].st = "failed"
  /\ ctl_calls'[c].st = "rejected"

\* C22 (as stated, its mapping part). When the create call of pane P has
\* failed and its rejection has been handled, neither map has an entry for P
\* and the in-flight marker of P is clear, so that the next ensurePaneSession
\* for P issues a fresh create call.
C22_FailureLeavesNoEntry ==
  [][\A c \in 1 .. MaxCalls :
       RejectsNow(c) =>
          /\ ctl_paneSession'[ctl_calls[c].pane] = 0
          /\ \A s \in CtlSessions : ctl_sessionPane'[s] # ctl_calls[c].pane
          /\ ctl_creating'[ctl_calls[c].pane] = 0]_vars


\* ---- pane runtime controller: the two maps

\* C26 (as stated). The pane-to-session map and the session-to-pane map are
\* inverses of each other in every reachable state.
C26_MapsAreInverse ==
  \A p \in Panes : \A s \in CtlSessions :
     (ctl_paneSession[p] = s) <=> (ctl_sessionPane[s] = p)


\* ---- pane runtime controller: sessions nobody owns

\* The response of the create call that made session s has been handled.
Returned(s) == s <= Len(ctl_calls) /\ ctl_calls[s].st = "resolved"

\* Session s is the session of a pane that has its runtime.
BoundToMounted(s) ==
  /\ ctl_sessionPane[s] # 0
  /\ ctl_paneSession[ctl_sessionPane[s]] = s
  /\ ctl_runtimes[ctl_sessionPane[s]] # 0

\* C27 (as stated). No orphan sessions: a session whose create call has
\* returned and that has not exited is bound to a mounted pane, or a kill call
\* has been issued for it.
C27_NoOrphanSession ==
  \A s \in CtlSessions :
     (Returned(s) /\ be_sessions[s] = "alive")
        => (BoundToMounted(s) \/ s \in be_killed)


\* ---- killTerminal: what is forgotten when the kill call settles

\* This step settles the kill call of session s, either way.
KillSettles(s) ==
  /\ kl_kills[s] = "pending"
  /\ kl_kills'[s] \in {"ok", "failed"}

\* C21 (as stated). When the kill call issued for the session of a disposed
\* pane has settled, with success or with an error, the renderer holds nothing
\* of the session: no entry in either map and no buffered output.
C21_KillForgets ==
  [][\A s \in KlSessions :
       KillSettles(s) =>
          /\ kl_out'[s] = Absent
          /\ kl_sessionPane'[s] = 0
          /\ \A p \in KlPanes : kl_paneSession'[p] # s]_vars


\* ---- the input path

\* The keystrokes that found a session, in order.
RECURSIVE BoundKeys(_)
BoundKeys(keys) ==
  IF keys = <<>> THEN <<>>
  ELSE (IF Head(keys).sid = 0 THEN <<>> ELSE <<Head(keys)>>) \o BoundKeys(Tail(keys))

\* This step handles the failure of write call i.
WriteFailsNow(i) ==
  /\ i \in 1 .. Len(in_writes)
  /\ in_writes[i].st = "pending"
  /\ in_writes'[i].st = "failed"

\* C23. Every keystroke on a pane with a session has exactly one write call,
\* addressed to the session the pane was bound to at that moment, and a
\* keystroke on a pane with no session has none: the write calls are, in
\* order, the keystrokes that found a session.  No exception reaches the
\* caller of the input handler, and the step that handles the failure of a
\* write call leaves the status of its pane at error.
C23_InputPath ==
  /\ [](/\ Len(in_writes) = Len(BoundKeys(in_keys))
        /\ \A i \in 1 .. Len(in_writes) :
              /\ in_writes[i].pane = BoundKeys(in_keys)[i].pane
              /\ in_writes[i].sid = BoundKeys(in_keys)[i].sid
        /\ ~in_thrown)
  /\ [][\A i \in 1 .. MaxKeys :
          WriteFailsNow(i) => in_status'[in_writes[i].pane] = "error"]_vars

\* C23 witness: a keystroke found no session and made no call, two found
\* different sessions, and the write call of the first of them has failed,
\* which left the pane's status at error.
C23_Witness ==
  /\ \E k \in 1 .. Len(in_keys) : in_keys[k].sid = 0
  /\ Len(in_writes) = 2
  /\ in_writes[1].sid # in_writes[2].sid
  /\ in_writes[1].st = "failed"
  /\ in_status[in_writes[1].pane] = "error"


\* ---- the resize path

\* C24 (as stated). Every resize call sent to the backend carries at least 2
\* columns and 2 rows; a call made for a pane is addressed to the session the
\* pane is bound to when the call is issued, and none is made for a pane with
\* no session.
C24_ResizeFloor ==
  rs_last.kind = "call" =>
     /\ rs_last.cols >= 2
     /\ rs_last.rows >= 2
     /\ rs_last.sid = rs_last.bound
     /\ rs_last.bound # 0

\* The animation frame requests of pane p that the browser still holds.
PendingFrames(p) == {f \in rs_raf : f.pane = p}

\* This step runs an animation frame callback of pane p.
FrameRunsNow(p) ==
  \E f \in PendingFrames(p) : f \notin rs_raf' /\ rs_runtime'[p] /\ rs_ids' = rs_ids

\* C25. Resize coalescing: a pane has at most one animation frame request
\* pending, the one its runtime remembers, and it has one exactly when its
\* observer has notified since the last frame ran; a pane that was disposed
\* has none, so no frame callback runs for it.  The frame that runs ends the
\* burst of notifications before it: one callback, hence one resize
\* invocation, for the k >= 1 notifications of the burst.
C25_ResizeCoalescing ==
  /\ [](\A p \in RsPanes :
          /\ Cardinality(PendingFrames(p)) <= 1
          /\ PendingFrames(p) = IF rs_frame[p] = 0 THEN {}
                                ELSE {[pane |-> p, id |-> rs_frame[p]]}
          /\ (rs_frame[p] # 0) <=> (rs_notes[p] > 0)
          /\ ~rs_runtime[p] => PendingFrames(p) = {})
  /\ [][\A p \in RsPanes :
          FrameRunsNow(p) =>
             /\ rs_notes[p] >= 1
             /\ rs_notes'[p] = 0
             /\ PendingFrames(p)' = {}]_vars

\* C25 witness: three notifications in a row left one request pending, the
\* third.
C25_Witness ==
  \E p \in RsPanes :
     /\ rs_notes[p] = 3
     /\ rs_ids = 3
     /\ PendingFrames(p) = {[pane |-> p, id |-> 3]}


\* ---- create behind the event subscriptions

\* C29 (as stated). No create call is sent to the backend before the output
\* and the exit subscription are both active, whichever caller sends it; hence
\* no output of a new session is emitted while the multiplexer has no handler
\* for it.
C29_SubscribedBeforeCreate ==
  /\ \A c \in CgCalls : cg_sentWith[c] # NotSent => cg_sentWith[c] = CgKinds
  /\ ~cg_lost


\* ---- subscribe of the preload bridge

\* C30 (as stated). Once the Unsubscribe function of a subscribe call has
\* been called, the listener of that call is never invoked again, also when
\* Unsubscribe is called before the listen call has resolved.
C30_SilentAfterUnsubscribe ==
  \A i \in 1 .. Len(sb_subs) : ~sb_subs[i].late


\* ---- the subscription effect: how often an event is handled

\* C28 (as stated). Each output event of a session bound to a mounted pane is
\* written to the pane's surface exactly once, and the session's exit event
\* is handled at most once, also while the subscription effect is torn down
\* and run again.
C28_HandledOnce ==
  /\ fx_last.kind = "output" => fx_last.writes = 1
  /\ fx_exits <= 1

====
